---- MODULE Spec2Model ----
(***************************************************************************)
(* Reedz: bets, predictions and the distribution of Reedz on resolution.   *)
(*                                                                         *)
(* The database (tables users, bets, predictions) is the state.  Text is   *)
(* modelled as a tuple of one-character strings so that strip(), lower()   *)
(* and float() are computed, character by character, as Python computes    *)
(* them.  Over the alphabet used here (space, digits, "a", "A", "n", "N")   *)
(* float(s) succeeds exactly when strip(s) is a non-empty run of digits or *)
(* spells nan; the numbers are small integers, which Python floats hold    *)
(* exactly, and nan compares false with everything, itself included.       *)
(***************************************************************************)
EXTENDS Integers, Sequences, FiniteSets, TLC

VARIABLES
    role,         \* users.role, by user_id
    balance,      \* users.reedz_balance, by user_id
    bets,         \* table bets, by bet_id (NoBet where no row exists)
    predictions,  \* table predictions, in the order get_predictions_for_bet returns rows
    last,         \* history: the last operation, its result and the add_reedz calls it made
    credited,     \* history: per bet and user, the sum of all deltas applied by scoring runs
    runs,         \* history: number of scoring runs (of a session: requests that write balances) started so far
    requests,     \* requests in flight: what each has still to do
    passed,       \* history: per user, the sum of all deltas passed to add_reedz
    session       \* the front-end sessions: where each stands and the user it holds

vars ==
    <<role, balance, bets, predictions, last, credited, runs, requests, passed,
      session>>

----------------------------------------------------------------------------
\* Bounds of the model

MaxPreds == 3
MaxRuns == 2
MaxSessionRuns == 2
MaxBets == 2
MaxPlaced == 2
MaxRetryPreds == 2
MaxConcPreds == 2
MaxFramePreds == 2

Users == {1, 2, 3}
BetIds == 1..MaxBets
None == <<"None">>

\* A bet_id without a row in bets
NoBet ==
    [exists |-> FALSE, answer_type |-> "", is_open |-> FALSE,
     is_closed |-> FALSE, is_resolved |-> FALSE,
     correct_answer |-> None, resolved_at |-> 0]

\* answer_type is "number" or "text"; "yes/no" stands for any other value
SupportedTypes == {"number", "text"}
AnswerTypes == SupportedTypes \cup {"yes/no"}

\* The texts typed as predictions and as correct answers. A text is the
\* sequence of its characters; "ß" is the one-character text U+00DF.
Strings ==
    { <<"0">>, <<" ", "1">>, <<"2">>, <<"a">>, <<"n", "a", "n">>, <<"ß">> }
Answers == { <<"0">>, <<"1">>, <<"A", " ">>, <<"n", "a", "n">>, <<"ß">> }

\* The texts typed in the lifecycle runs
TypedPredictions == { <<" ", "1">>, <<"a">> }
TypedAnswers == { <<"1">>, <<"A", " ">> }

----------------------------------------------------------------------------
\* Python's str.strip(), str.lower() and float() on the modelled alphabet

IsSpace(c) == c = " "

RECURSIVE lstrip(_)
lstrip(s) == IF s # <<>> /\ IsSpace(Head(s)) THEN lstrip(Tail(s)) ELSE s

RECURSIVE rstrip(_)
rstrip(s) ==
    IF s # <<>> /\ IsSpace(s[Len(s)]) THEN rstrip(SubSeq(s, 1, Len(s) - 1)) ELSE s

strip(s) == rstrip(lstrip(s))

\* str.lower() of one character: "ß" is a lower-case letter and stays
lower_char(c) ==
    CASE c = "A" -> "a" [] c = "N" -> "n" [] c = "S" -> "s" [] OTHER -> c

lower(s) == [i \in 1..Len(s) |-> lower_char(s[i])]

DigitChars == {"0", "1", "2", "3", "4", "5", "6", "7", "8", "9"}

digit_value(c) ==
    CASE c = "0" -> 0 [] c = "1" -> 1 [] c = "2" -> 2 [] c = "3" -> 3
      [] c = "4" -> 4 [] c = "5" -> 5 [] c = "6" -> 6 [] c = "7" -> 7
      [] c = "8" -> 8 [] c = "9" -> 9

RECURSIVE decimal_value(_)
decimal_value(t) ==
    IF t = <<>> THEN 0
    ELSE 10 * decimal_value(SubSeq(t, 1, Len(t) - 1)) + digit_value(t[Len(t)])

\* float(s): ok = FALSE where Python raises ValueError; otherwise the value
\* is nan (nan = TRUE) or the number value
float(s) ==
    LET t == strip(s)
    IN  IF t # <<>> /\ \A i \in 1..Len(t) : t[i] \in DigitChars
        THEN [ok |-> TRUE, nan |-> FALSE, value |-> decimal_value(t)]
        ELSE IF lower(t) = <<"n", "a", "n">>
        THEN [ok |-> TRUE, nan |-> TRUE, value |-> 0]
        ELSE [ok |-> FALSE, nan |-> FALSE, value |-> 0]

\* x < y and x == y on floats: false as soon as one side is nan
float_lt(x, y) == ~x.nan /\ ~y.nan /\ x.value < y.value

float_eq(x, y) == ~x.nan /\ ~y.nan /\ x.value = y.value

abs(x) == IF x < 0 THEN -x ELSE x

----------------------------------------------------------------------------
\* supabase_db: the persistence collaborator

\* Variant: the rows of every bet
get_all_predictions(bet_id) == predictions

\* get_predictions_for_bet(bet_id): the rows of the bet, in table order
get_predictions_for_bet(bet_id) ==
    SelectSeq(predictions, LAMBDA p : p.bet_id = bet_id)

\* Variant: the balance is set to the value passed
set_reedz(bal, user_id, delta) == [bal EXCEPT ![user_id] = delta]

\* add_reedz(user_id, delta): a signed increment of one user's balance
add_reedz(bal, user_id, delta) == [bal EXCEPT ![user_id] = @ + delta]

----------------------------------------------------------------------------
\* scoring.py: distribute_reedz_on_resolution, 'number' branch

\* abs(float(pred.prediction) - correct) for the prediction at position idx.
\* The result is used as a dict key: equal numbers are the same key, while
\* every nan is an object of its own and a key different from all others,
\* which id records.
distance(x, correct, idx) ==
    IF x.nan \/ correct.nan
    THEN [nan |-> TRUE, value |-> 0, id |-> idx]
    ELSE [nan |-> FALSE, value |-> abs(x.value - correct.value), id |-> 0]

\* [(abs(float(pred.prediction) - correct), pred) for pred in predictions];
\* idx is the position of pred in predictions
dist_list(preds, correct) ==
    [i \in 1..Len(preds) |->
        [dist |-> distance(float(preds[i].prediction), correct, i),
         pred |-> preds[i],
         idx  |-> i]]

\* sorted(..., key=...) is list.sort of CPython, which for fewer than 64
\* elements finds the run the list starts with (count_run), reverses it when
\* it is strictly descending, and inserts the remaining elements one by one
\* by binary search (binarysort).  The only comparison made is key < key.

\* count_run: i is the last position of the run found so far
RECURSIVE run_end(_, _, _)
run_end(l, i, descending) ==
    IF i = Len(l) THEN i
    ELSE IF float_lt(l[i + 1].dist, l[i].dist) = descending
    THEN run_end(l, i + 1, descending)
    ELSE i

count_run(l) ==
    LET descending == float_lt(l[2].dist, l[1].dist)
    IN  [n |-> run_end(l, 2, descending), descending |-> descending]

\* reverse_slice: the first n elements in reverse order
reverse_slice(l, n) ==
    [i \in 1..Len(l) |-> IF i <= n THEN l[n + 1 - i] ELSE l[i]]

\* The binary search of binarysort: the number of elements of s[1..r] that
\* stay in front of pivot (lo and r count from 0 as in the C code)
RECURSIVE bisect(_, _, _, _)
bisect(s, pivot, lo, r) ==
    LET p   == lo + ((r - lo) \div 2)
        lo2 == IF float_lt(pivot.dist, s[p + 1].dist) THEN lo ELSE p + 1
        r2  == IF float_lt(pivot.dist, s[p + 1].dist) THEN p ELSE r
    IN  IF lo2 < r2 THEN bisect(s, pivot, lo2, r2) ELSE lo2

\* binarysort: the first start elements are in order, the others are
\* inserted from left to right
RECURSIVE binarysort(_, _)
binarysort(s, start) ==
    IF start >= Len(s) THEN s
    ELSE LET pivot == s[start + 1]
             at    == bisect(s, pivot, 0, start)
         IN  binarysort(SubSeq(s, 1, at) \o <<pivot>> \o SubSeq(s, at + 1, start)
                            \o SubSeq(s, start + 2, Len(s)),
                        start + 1)

list_sort(l) ==
    IF Len(l) < 2 THEN l
    ELSE LET run == count_run(l)
         IN  binarysort(IF run.descending THEN reverse_slice(l, run.n) ELSE l,
                        run.n)

sorted_preds(preds, correct) == list_sort(dist_list(preds, correct))

\* error_groups[dist]: the predictions with that key, in sorted_preds order
error_groups(sp) ==
    [d \in {sp[i].dist : i \in 1..Len(sp)} |->
        SelectSeq(sp, LAMBDA x : x.dist = d)]

\* error_groups.keys(): the keys in the order of their insertion
group_keys(sp) ==
    LET first == SelectSeq([i \in 1..Len(sp) |-> i],
                     LAMBDA i : \A j \in 1..(i - 1) : sp[j].dist # sp[i].dist)
    IN  [k \in 1..Len(first) |-> [dist |-> sp[first[k]].dist]]

\* positions = sorted(error_groups.keys())
positions(sp) ==
    LET s == list_sort(group_keys(sp))
    IN  [k \in 1..Len(s) |-> s[k].dist]

\* Variant: every group receives the full number of points
rank_points_flat(num_predictions, given) == num_predictions

\* Variant: ranks counted from zero, the last group receiving nothing
rank_points_from_zero(num_predictions, given) == num_predictions - given - 1

\* rank_points = num_predictions - given
rank_points(num_predictions, given) == num_predictions - given

\* Variant: every group consumes one rank slot, whatever its size
advance_given_by_one(given, users_in_group) == given + 1

\* given += len(users_in_group)
advance_given(given, users_in_group) == given + Len(users_in_group)

\* if float(pred.prediction) == correct: the perfect-prediction bonus applies
is_perfect(pred, correct) == float_eq(float(pred.prediction), correct)

PerfectBonus == 5

\* scores[pred.user_id] = rank_points, then += 5 for a perfect prediction.
\* An entry keeps the rank points and whether the bonus was added; the amount
\* is their sum (score_amount).
score_entry(pred, points, correct) ==
    [points |-> points, bonus |-> is_perfect(pred, correct)]

score_amount(entry) == entry.points + (IF entry.bonus THEN PerfectBonus ELSE 0)

\* for pred in users_in_group: ... (a later assignment for the same user_id
\* overwrites the earlier one)
RECURSIVE score_group(_, _, _, _)
score_group(users_in_group, points, correct, scores) ==
    IF users_in_group = <<>> THEN scores
    ELSE LET pred == Head(users_in_group).pred
         IN  score_group(Tail(users_in_group), points, correct,
                         (pred.user_id :> score_entry(pred, points, correct)) @@ scores)

\* for error in positions: ...
RECURSIVE score_positions(_, _, _, _, _, _)
score_positions(pos, groups, num_predictions, correct, given, scores) ==
    IF pos = <<>> THEN scores
    ELSE LET users_in_group == groups[Head(pos)]
             points == rank_points(num_predictions, given)
         IN  score_positions(Tail(pos), groups, num_predictions, correct,
                             advance_given(given, users_in_group),
                             score_group(users_in_group, points, correct, scores))

number_scores(preds, correct) ==
    LET sp == sorted_preds(preds, correct)
    IN  score_positions(positions(sp), error_groups(sp), Len(preds), correct,
                        0, <<>>)

\* for pred in predictions: supabase_db.add_reedz(pred.user_id, scores[pred.user_id])
number_calls(preds, scores) ==
    [i \in 1..Len(preds) |->
        [user_id |-> preds[i].user_id,
         delta   |-> score_amount(scores[preds[i].user_id]),
         bonus   |-> scores[preds[i].user_id].bonus,
         pred    |-> i]]

\* Variant: predictions that do not parse are left out of the ranking
number_plan_skipping(bet, preds) ==
    IF ~float(bet.correct_answer).ok
    THEN [error |-> "ValueError", calls |-> <<>>]
    ELSE LET parsed == SelectSeq(preds, LAMBDA p : float(p.prediction).ok)
         IN  [error |-> "none",
              calls |-> number_calls(parsed,
                            number_scores(parsed, float(bet.correct_answer)))]

\* Variant: an unparseable correct answer is silently read as 0
number_plan_coercing(bet, preds) ==
    IF \E i \in 1..Len(preds) : ~float(preds[i].prediction).ok
    THEN [error |-> "ValueError", calls |-> <<>>]
    ELSE [error |-> "none",
          calls |-> number_calls(preds,
                        number_scores(preds, float(bet.correct_answer)))]

\* The 'number' branch up to the add_reedz loop: the calls it is about to
\* make, or the ValueError float() raises before any call
number_plan(bet, preds) ==
    IF ~float(bet.correct_answer).ok
    THEN [error |-> "ValueError", calls |-> <<>>]
    ELSE IF \E i \in 1..Len(preds) : ~float(preds[i].prediction).ok
    THEN [error |-> "ValueError", calls |-> <<>>]
    ELSE [error |-> "none",
          calls |-> number_calls(preds,
                        number_scores(preds, float(bet.correct_answer)))]

----------------------------------------------------------------------------
\* scoring.py: distribute_reedz_on_resolution, 'text' branch

\* Variant: the prediction is trimmed but keeps its case
pred_norm_keeping_case(s) == strip(s)

\* pred.prediction.strip().lower()
pred_norm(s) == lower(strip(s))

is_match(pred, correct_answer) == pred_norm(pred.prediction) = correct_answer

indices(preds) == [i \in 1..Len(preds) |-> i]

matches(preds, correct_answer) ==
    SelectSeq(indices(preds), LAMBDA i : is_match(preds[i], correct_answer))

nonmatches(preds, correct_answer) ==
    SelectSeq(indices(preds), LAMBDA i : ~is_match(preds[i], correct_answer))

\* add_reedz(pred.user_id, num + 5) for the matches
match_amount(num) == num + PerfectBonus

\* add_reedz(pred.user_id, 0) for the others
nonmatch_amount(num) == 0

\* Variant: only the matches are counted
matches_only(m, nm) == Len(m)

\* num = len(matches) + len(nonmatches)
total_participants(m, nm) == Len(m) + Len(nm)

text_plan(bet, preds) ==
    LET correct_answer == lower(strip(bet.correct_answer))
        m   == matches(preds, correct_answer)
        nm  == nonmatches(preds, correct_answer)
        num == total_participants(m, nm)
    IN  [error |-> "none",
         calls |->
            [k \in 1..Len(m) |->
                [user_id |-> preds[m[k]].user_id, delta |-> match_amount(num),
                 bonus |-> TRUE, pred |-> m[k]]]
            \o
            [k \in 1..Len(nm) |->
                [user_id |-> preds[nm[k]].user_id, delta |-> nonmatch_amount(num),
                 bonus |-> FALSE, pred |-> nm[k]]]]

----------------------------------------------------------------------------
\* scoring.py: distribute_reedz_on_resolution(bet_id)

\* Variant: no early return for a bet without predictions
scoring_plan_no_early_return(bet, preds) ==
    IF bet.answer_type = "number" THEN number_plan(bet, preds)
    ELSE IF bet.answer_type = "text" THEN text_plan(bet, preds)
    ELSE [error |-> "none", calls |-> <<>>]

\* Variant: a bet of any other type is scored as a 'text' bet
scoring_plan_other_as_text(bet, preds) ==
    IF Len(preds) = 0 THEN [error |-> "none", calls |-> <<>>]
    ELSE IF bet.answer_type = "number" THEN number_plan(bet, preds)
    ELSE text_plan(bet, preds)

\* Everything before the first add_reedz: the calls the run will make, in
\* order, or the error raised before any of them
scoring_plan(bet, preds) ==
    IF Len(preds) = 0 THEN [error |-> "none", calls |-> <<>>]
    ELSE IF bet.answer_type = "number" THEN number_plan(bet, preds)
    ELSE IF bet.answer_type = "text" THEN text_plan(bet, preds)
    ELSE [error |-> "none", calls |-> <<>>]

\* The balances after the first k calls of a plan were applied
RECURSIVE apply_calls(_, _, _)
apply_calls(bal, calls, k) ==
    IF k = 0 THEN bal
    ELSE add_reedz(apply_calls(bal, calls, k - 1), calls[k].user_id, calls[k].delta)

\* Sum of the deltas among the first k calls that went to user u
RECURSIVE delta_sum(_, _, _)
delta_sum(calls, k, u) ==
    IF k = 0 THEN 0
    ELSE delta_sum(calls, k - 1, u) + (IF calls[k].user_id = u THEN calls[k].delta ELSE 0)

\* One run of distribute_reedz_on_resolution, given the plan of the bet and
\* its predictions.  fail_at = 0: every add_reedz succeeds; fail_at = k > 0:
\* the k-th add_reedz raises, after the first k - 1 were applied.  Gives the
\* new balances, the result and the calls that were applied.
distribute_reedz_on_resolution(bal, plan, fail_at) ==
    LET done == IF fail_at = 0 THEN Len(plan.calls) ELSE fail_at - 1
    IN  [balance |-> apply_calls(bal, plan.calls, done),
         result  |-> IF plan.error # "none" THEN plan.error
                     ELSE IF fail_at = 0 THEN "ok" ELSE "PersistenceFailure",
         calls   |-> SubSeq(plan.calls, 1, done)]

\* The add_reedz calls that can be the failing one (0: none fails)
fail_points(plan) == 0..Len(plan.calls)

credit(cred, bet_id, calls) ==
    [cred EXCEPT ![bet_id] =
        [u \in Users |-> @[u] + delta_sum(calls, Len(calls), u)]]

\* The deltas of the calls added to what was passed to add_reedz so far
pass(sum, calls) ==
    [u \in Users |-> sum[u] + delta_sum(calls, Len(calls), u)]

\* The admin's balance change (main.py, user management): not started
NoAdjust == [pc |-> "none", uid |-> 0, target |-> 0, seen |-> 0, found |-> 0]

\* No front-end session: the operations are called directly
NoSessions == <<>>

\* No request in flight: every operation runs from start to end in one step
NoRequests == [scorer |-> [b \in BetIds |-> <<>>], adjust |-> NoAdjust]

----------------------------------------------------------------------------
\* The scorer on its own: a resolved bet with any stored predictions

RegisteredRoles == [u \in Users |-> IF u = 1 THEN "Admin" ELSE "Member"]

NoOp ==
    [op |-> "none", bet_id |-> 0, result |-> "ok", calls |-> <<>>, late |-> FALSE]

\* A bet as resolve leaves it when it hands over to the scorer
ResolvedBet(answer_type, correct_answer) ==
    [exists |-> TRUE, answer_type |-> answer_type, is_open |-> FALSE,
     is_closed |-> TRUE, is_resolved |-> TRUE,
     correct_answer |-> correct_answer, resolved_at |-> 1]

PredictionRows(bet_id) ==
    [user_id : Users, bet_id : {bet_id}, prediction : Strings]

PredictionLists(bet_id) ==
    UNION {[1..n -> PredictionRows(bet_id)] : n \in 0..MaxPreds}

InitScore ==
    /\ role = RegisteredRoles
    /\ balance = [u \in Users |-> 0]
    /\ \E t \in AnswerTypes, a \in Answers :
          bets = [b \in BetIds |-> IF b = 1 THEN ResolvedBet(t, a) ELSE NoBet]
    /\ predictions \in PredictionLists(1)
    /\ last = NoOp
    /\ credited = [b \in BetIds |-> [u \in Users |-> 0]]
    /\ runs = 0
    /\ requests = NoRequests
    /\ passed = [u \in Users |-> 0]
    /\ session = NoSessions

\* One call of distribute_reedz_on_resolution(bet_id)
Score(bet_id) ==
    /\ bets[bet_id].exists
    /\ LET plan == scoring_plan(bets[bet_id], get_predictions_for_bet(bet_id))
       IN  \E fail_at \in fail_points(plan) :
              LET run == distribute_reedz_on_resolution(balance, plan, fail_at)
              IN  /\ balance' = run.balance
                  /\ last' = [op |-> "distribute", bet_id |-> bet_id,
                              result |-> run.result, calls |-> run.calls,
                              late |-> FALSE]
                  /\ credited' = credit(credited, bet_id, run.calls)
                  /\ passed' = pass(passed, run.calls)
    /\ runs' = runs + 1
    /\ UNCHANGED <<role, bets, predictions, requests, session>>

\* The scorer called once
Distribute(bet_id) == runs = 0 /\ Score(bet_id)

NextScore == \E b \in BetIds : Distribute(b)

ScoreSpec == InitScore /\ [][NextScore]_vars

\* The scorer called again for the same bet, as after a failed run
InitRetry == InitScore /\ Len(predictions) <= MaxRetryPreds

Redistribute(bet_id) == runs < MaxRuns /\ Score(bet_id)

NextRetry == \E b \in BetIds : Redistribute(b)

RetrySpec == InitRetry /\ [][NextRetry]_vars

\* The scorer among other records: two resolved bets, each with predictions
\* of its own in table predictions, scored one after the other
FrameStrings == { <<" ", "1">>, <<"2">> }

FrameRows == [user_id : Users, bet_id : BetIds, prediction : FrameStrings]

InitFrame ==
    /\ role = RegisteredRoles
    /\ balance = [u \in Users |-> 0]
    /\ \E t \in [BetIds -> SupportedTypes] :
          bets = [b \in BetIds |-> ResolvedBet(t[b], <<"1">>)]
    /\ predictions \in UNION {[1..n -> FrameRows] : n \in 0..MaxFramePreds}
    /\ last = NoOp
    /\ credited = [b \in BetIds |-> [u \in Users |-> 0]]
    /\ runs = 0
    /\ requests = NoRequests
    /\ passed = [u \in Users |-> 0]
    /\ session = NoSessions

NextFrame == \E b \in BetIds : Redistribute(b)

FrameSpec == InitFrame /\ [][NextFrame]_vars

----------------------------------------------------------------------------
\* auth.py

\* The User object a caller passes: the row of user_id as read at login
User(user_id) == [user_id |-> user_id, role |-> role[user_id]]

\* Variant: every user passes the check
is_anyone(user) == TRUE

\* Variant: the role is read from table users at every check
is_admin_reread(user) == role[user.user_id] = "Admin"

is_admin(user) == user.role = "Admin"

can_place_prediction(user) == user.role \in {"Admin", "Member"}

----------------------------------------------------------------------------
\* betting.py: the lifecycle operations on the bets table

\* A bet as create_bet stores it
OpenBet(answer_type) ==
    [exists |-> TRUE, answer_type |-> answer_type, is_open |-> TRUE,
     is_closed |-> FALSE, is_resolved |-> FALSE,
     correct_answer |-> None, resolved_at |-> 0]

\* What the caller of an operation observes
Done(op, bet_id, result, calls) ==
    [op |-> op, bet_id |-> bet_id, result |-> result, calls |-> calls,
     late |-> FALSE]

\* The id the database assigns to a new bet
next_bet_id == CHOOSE b \in BetIds : ~bets[b].exists /\ \A c \in 1..(b - 1) : bets[c].exists

\* create(creator, title, description, answer_type, close_at): the
\* answer_type is stored as it was typed, whatever it is
create_bet(user_id, answer_type) ==
    /\ \E b \in BetIds : ~bets[b].exists
    /\ IF ~is_admin(User(user_id))
       THEN /\ last' = Done("create", 0, "Unauthorized", <<>>)
            /\ UNCHANGED bets
       ELSE /\ bets' = [bets EXCEPT ![next_bet_id] = OpenBet(answer_type)]
            /\ last' = Done("create", next_bet_id, "ok", <<>>)
    /\ UNCHANGED <<role, balance, predictions, credited, runs, requests, passed, session>>

\* What the caller of place_prediction observes; late: the call was made
\* after the bet's close_at
Placed(bet_id, result, late) ==
    [Done("place", bet_id, result, <<>>) EXCEPT !.late = late]

\* Variant: a prediction is accepted whatever the state of the bet
always_placeable(bet, late) == TRUE

\* place_prediction requires the bet to be open; close_at is not consulted
placeable(bet, late) == bet.is_open

\* place_prediction(user, bet_id, value), called before (late = FALSE) or
\* after (late = TRUE) the bet's close_at
place_prediction(user_id, bet_id, value, late) ==
    /\ Len(predictions) < MaxPlaced
    /\ IF ~bets[bet_id].exists
       THEN /\ last' = Placed(bet_id, "NotFound", late)
            /\ UNCHANGED predictions
       ELSE IF ~placeable(bets[bet_id], late)
       THEN /\ last' = Placed(bet_id, "InvalidState", late)
            /\ UNCHANGED predictions
       ELSE IF ~can_place_prediction(User(user_id))
       THEN /\ last' = Placed(bet_id, "Unauthorized", late)
            /\ UNCHANGED predictions
       ELSE /\ predictions' = Append(predictions,
                [user_id |-> user_id, bet_id |-> bet_id, prediction |-> value])
            /\ last' = Placed(bet_id, "ok", late)
    /\ UNCHANGED <<role, balance, bets, credited, runs, requests, passed, session>>

\* Variant: close leaves is_open as it is
closed_keeping_open(bet) == [bet EXCEPT !.is_closed = TRUE]

\* Variant: close also withdraws a resolution
closed_and_unresolved(bet) ==
    [bet EXCEPT !.is_open = FALSE, !.is_closed = TRUE,
                !.is_resolved = FALSE, !.correct_answer = None]

\* The bet as close leaves it: is_open = false, is_closed = true
closed(bet) == [bet EXCEPT !.is_open = FALSE, !.is_closed = TRUE]

\* close(admin, bet_id)
close_bet(user_id, bet_id) ==
    /\ IF ~is_admin(User(user_id))
       THEN /\ last' = Done("close", bet_id, "Unauthorized", <<>>)
            /\ UNCHANGED bets
       ELSE IF ~bets[bet_id].exists
       THEN /\ last' = Done("close", bet_id, "NotFound", <<>>)
            /\ UNCHANGED bets
       ELSE /\ bets' = [bets EXCEPT ![bet_id] = closed(bets[bet_id])]
            /\ last' = Done("close", bet_id, "ok", <<>>)
    /\ UNCHANGED <<role, balance, predictions, credited, runs, requests, passed, session>>

\* Variant: resolve accepts a bet in any state
always_resolvable(bet) == TRUE

\* resolve requires the bet to be closed
resolvable(bet) == bet.is_closed

\* resolve(admin, bet_id, correct_answer): sets correct_answer, is_resolved
\* and resolved_at, then runs the scorer on the bet's predictions
resolve_bet(user_id, bet_id, correct_answer) ==
    IF ~is_admin(User(user_id))
    THEN /\ last' = Done("resolve", bet_id, "Unauthorized", <<>>)
         /\ UNCHANGED <<role, balance, bets, predictions, credited, runs, requests, passed, session>>
    ELSE IF ~bets[bet_id].exists
    THEN /\ last' = Done("resolve", bet_id, "NotFound", <<>>)
         /\ UNCHANGED <<role, balance, bets, predictions, credited, runs, requests, passed, session>>
    ELSE IF ~resolvable(bets[bet_id])
    THEN /\ last' = Done("resolve", bet_id, "InvalidState", <<>>)
         /\ UNCHANGED <<role, balance, bets, predictions, credited, runs, requests, passed, session>>
    ELSE /\ runs < MaxRuns
         /\ LET bet  == [bets[bet_id] EXCEPT !.correct_answer = correct_answer,
                                             !.is_resolved = TRUE,
                                             !.resolved_at = runs + 1]
                plan == scoring_plan(bet, get_predictions_for_bet(bet_id))
            IN  /\ bets' = [bets EXCEPT ![bet_id] = bet]
                /\ \E fail_at \in fail_points(plan) :
                      LET run == distribute_reedz_on_resolution(balance, plan, fail_at)
                      IN  /\ balance' = run.balance
                          /\ last' = Done("resolve", bet_id, run.result, run.calls)
                          /\ credited' = credit(credited, bet_id, run.calls)
                          /\ passed' = pass(passed, run.calls)
         /\ runs' = runs + 1
         /\ UNCHANGED <<role, predictions, requests, session>>

Init ==
    /\ role = RegisteredRoles
    /\ balance = [u \in Users |-> 0]
    /\ bets = [b \in BetIds |-> NoBet]
    /\ predictions = <<>>
    /\ last = NoOp
    /\ credited = [b \in BetIds |-> [u \in Users |-> 0]]
    /\ runs = 0
    /\ requests = NoRequests
    /\ passed = [u \in Users |-> 0]
    /\ session = NoSessions

CreateBet == \E u \in Users, t \in AnswerTypes : create_bet(u, t)
PlacePrediction ==
    \E u \in Users, b \in BetIds, v \in TypedPredictions, late \in BOOLEAN :
        place_prediction(u, b, v, late)
CloseBet == \E u \in Users, b \in BetIds : close_bet(u, b)
ResolveBet ==
    \E u \in Users, b \in BetIds, a \in TypedAnswers : resolve_bet(u, b, a)

Next == CreateBet \/ PlacePrediction \/ CloseBet \/ ResolveBet

Spec == Init /\ [][Next]_vars

----------------------------------------------------------------------------
\* Requests that run at the same time: the scoring runs of two resolved bets
\* and the admin's balance change, interleaved at their database calls

\* "New Reedz balance: " as typed by the admin
AdjustTargets == {0, 3}

\* "Enter User ID to change Reedz: "; 0 is the id of no user
UnknownUser == 0
TypedUserIds == Users \cup {UnknownUser}

ConcurrentLists ==
    UNION {[1..n -> [user_id : Users, bet_id : {1, 2},
                     prediction : TypedPredictions]] : n \in 0..MaxConcPreds}

\* The add_reedz calls a scoring run of bet b is about to make
calls_to_make(b) ==
    IF bets[b].exists
    THEN scoring_plan(bets[b], get_predictions_for_bet(b)).calls
    ELSE <<>>

InitConcurrent ==
    /\ role = RegisteredRoles
    /\ balance = [u \in Users |-> 0]
    /\ \E t1, t2 \in SupportedTypes :
          bets = [b \in BetIds |->
                    IF b = 1 THEN ResolvedBet(t1, <<"1">>)
                    ELSE IF b = 2 THEN ResolvedBet(t2, <<"1">>)
                    ELSE NoBet]
    /\ predictions \in ConcurrentLists
    /\ last = NoOp
    /\ credited = [b \in BetIds |-> [u \in Users |-> 0]]
    /\ runs = 0
    /\ \E uid \in TypedUserIds, target \in AdjustTargets :
          requests =
              [scorer |-> [b \in BetIds |-> calls_to_make(b)],
               adjust |-> [pc |-> "start", uid |-> uid, target |-> target,
                           seen |-> 0, found |-> 0]]
    /\ passed = [u \in Users |-> 0]
    /\ session = NoSessions

\* The next supabase_db.add_reedz call of the scoring run of bet b
ScorerAddReedz(b) ==
    /\ requests.scorer[b] # <<>>
    /\ LET c == Head(requests.scorer[b])
       IN  /\ balance' = add_reedz(balance, c.user_id, c.delta)
           /\ passed' = pass(passed, <<c>>)
           /\ credited' = credit(credited, b, <<c>>)
    /\ requests' = [requests EXCEPT !.scorer[b] = Tail(@)]
    /\ UNCHANGED <<role, bets, predictions, last, runs, session>>

\* all_users = supabase_db.list_all_users(); user_obj = next(...)
AdjustRead ==
    /\ requests.adjust.pc = "start"
    /\ requests' =
          IF requests.adjust.uid \in Users
          THEN [requests EXCEPT !.adjust.pc = "read",
                                !.adjust.seen = balance[requests.adjust.uid]]
          ELSE [requests EXCEPT !.adjust.pc = "not found"]
    /\ UNCHANGED <<role, balance, bets, predictions, last, credited, runs, passed, session>>

\* Variant: the typed balance itself is passed to add_reedz
adjust_absolute(target, seen) == target

\* delta = reedz - user_obj['reedz_balance']
adjust_delta(target, seen) == target - seen

\* supabase_db.add_reedz(uid, delta); found records the balance the
\* increment was applied to
AdjustAddReedz ==
    /\ requests.adjust.pc = "read"
    /\ LET uid   == requests.adjust.uid
           delta == adjust_delta(requests.adjust.target, requests.adjust.seen)
       IN  /\ balance' = add_reedz(balance, uid, delta)
           /\ passed' = [passed EXCEPT ![uid] = @ + delta]
    /\ requests' = [requests EXCEPT !.adjust.pc = "done",
                                    !.adjust.found =
                                        balance[requests.adjust.uid]]
    /\ UNCHANGED <<role, bets, predictions, last, credited, runs, session>>

NextConcurrent ==
    \/ \E b \in BetIds : ScorerAddReedz(b)
    \/ AdjustRead
    \/ AdjustAddReedz

ConcurrentSpec == InitConcurrent /\ [][NextConcurrent]_vars

----------------------------------------------------------------------------
\* main.py (cli) and streamlit_app.py: the front ends.  A session is one
\* run of cli() or one browser session of the web application.  The
\* functions of betting and supabase_db are called here and defined
\* elsewhere: a call returns or raises.  Of what they store the users table
\* (role, reedz_balance) is kept; the bets and predictions a call meets are
\* chosen with the call.

Sessions == {1, 2}

\* Session 1 is a run of the CLI, session 2 a browser session
front(s) == IF s = 1 THEN "cli" ELSE "web"

\* users.role of a user_id without a row
NoRow == ""

\* user = None: no User object
NoUser == [user_id |-> 0, role |-> NoRow]

\* No change of a row between its read and its write
NoChange == [uid |-> 0, target |-> 0, seen |-> 0, new_role |-> NoRow]

\* A session: where it is, the User object it holds, the change of a row it
\* is in the middle of (the row selected from the users it read, and what it
\* is about to write), the add_reedz calls the scorer it called has still to
\* make, and st.session_state["sent_reset_email"]
Session(pc, user) ==
    [pc |-> pc, user |-> user, change |-> NoChange, calls |-> <<>>,
     sent_reset_email |-> FALSE]

\* What a step of a session did: the menu or page it displayed, the last
\* operation it called (op), whether the step ended in an exception (result)
\* and the message displayed
Step(s, menu, op, result, message) ==
    [op |-> op, bet_id |-> 0, result |-> result, calls |-> <<>>,
     late |-> FALSE, session |-> s, menu |-> menu, message |-> message]

Outcomes == {"ok", "raised"}
Roles == {"Admin", "Member"}

\* What a query returns: rows, no row, or it raises
Found == {"some", "none", "raised"}

\* authenticate(username, password): the row of the user, or None
authenticate(user_id, password_ok) ==
    IF role[user_id] # NoRow /\ password_ok THEN User(user_id) ELSE NoUser

\* list_all_users()
list_all_users == {u \in Users : role[u] # NoRow}

\* supabase_db.change_role(uid, new_role): an update of the row of uid
change_role(roles, uid, new_role) ==
    [u \in Users |-> IF u = uid /\ roles[u] # NoRow THEN new_role ELSE roles[u]]

\* supabase_db.delete_user(uid)
delete_user(roles, uid) == [u \in Users |-> IF u = uid THEN NoRow ELSE roles[u]]

\* supabase_db.create_user(u): a new row, reedz_balance = 0
create_user(roles, uid, new_role) ==
    [u \in Users |-> IF u = uid THEN new_role ELSE roles[u]]

\* The users who log in
LoginIds == {1, 2}

\* The user_id create_user can give to a new row
NewUserIds == {3}

\* The user ids typed or selected in user management: a user, and an id
\* without a row
SessionUserIds == {2, UnknownUser}

\* The user ids typed or selected for a balance change: a user the bets
\* credit, and an id without a row
AdjustedUserIds == {2, UnknownUser}

\* The balances typed in user management
SessionTargets == {3}

\* The closed bets resolve_bet(user, bet_id, answer) is called on: the
\* predictions of a bet and what the scorer makes of them and the answer (a
\* 'number' bet, bet_id 1, with no prediction or with the prediction " 1" of
\* user 2 and the prediction "2" of user 1)
SessionBets ==
    { [preds |-> preds,
       plan  |-> scoring_plan(ResolvedBet("number", answer), preds)] :
          answer \in TypedAnswers,
          preds \in
             { <<>>,
               <<[user_id |-> 2, bet_id |-> 1, prediction |-> <<" ", "1">>],
                 [user_id |-> 1, bet_id |-> 1, prediction |-> <<"2">>]>> } }

InitSession ==
    /\ role = [u \in Users |-> IF u = 1 THEN "Admin"
                               ELSE IF u = 2 THEN "Member" ELSE NoRow]
    /\ balance = [u \in Users |-> 0]
    /\ bets = [b \in BetIds |-> NoBet]
    /\ predictions = <<>>
    /\ last = Step(0, "", "none", "ok", "")
    /\ credited = [b \in BetIds |-> [u \in Users |-> 0]]
    /\ runs = 0
    /\ requests = NoRequests
    /\ passed = [u \in Users |-> 0]
    /\ session = [s \in Sessions |-> Session("auth", NoUser)]

Tables == <<bets, predictions, credited, runs, requests, passed>>

\* The step leaves the session where it is
stay(s, menu, op, result, message) ==
    /\ session' = session
    /\ last' = Step(s, menu, op, result, message)

\* The step moves the session
move(s, pc, user, menu, op, result, message) ==
    /\ session' = [session EXCEPT ![s].pc = pc, ![s].user = user,
                                  ![s].change = NoChange, ![s].calls = <<>>]
    /\ last' = Step(s, menu, op, result, message)

\* An exception no handler catches ends cli() and with it the program
crash(s, menu, op) == move(s, "crashed", NoUser, menu, op, "raised", "Traceback")

\* An exception no handler catches ends the script run of the browser
\* session; the page shows it and the session goes on
traceback(s, menu, op) == stay(s, menu, op, "raised", "Traceback")

----------------------------------------------------------------------------
\* main.py: cli(), the authentication loop

\* choice == "1": register; create_user is called outside try/except
CliRegister(s) ==
    /\ front(s) = "cli" /\ session[s].pc = "auth"
    /\ \E outcome \in Outcomes :
          IF outcome = "ok"
          THEN /\ \E u \in NewUserIds, new_role \in Roles :
                     /\ role[u] = NoRow
                     /\ role' = create_user(role, u, new_role)
                     /\ balance' = [balance EXCEPT ![u] = 0]
               /\ stay(s, "auth_menu", "create_user", "ok",
                       "User registered. Now, please login.")
          ELSE /\ crash(s, "auth_menu", "create_user")
               /\ UNCHANGED <<role, balance>>
    /\ UNCHANGED Tables

\* choice == "2": login
CliLogin(s) ==
    /\ front(s) = "cli" /\ session[s].pc = "auth"
    /\ \E outcome \in Outcomes :
          IF outcome = "raised"
          THEN crash(s, "auth_menu", "authenticate")
          ELSE \E u \in LoginIds, password_ok \in BOOLEAN :
                  LET user == authenticate(u, password_ok)
                  IN  IF user # NoUser
                      THEN move(s, "main", user, "auth_menu", "authenticate",
                                "ok", "Logged in as")
                      ELSE stay(s, "auth_menu", "authenticate", "ok",
                                "Login failed, try again.")
    /\ UNCHANGED <<role, balance, Tables>>

\* choice == "3": password reset (passwords are not part of the state)
CliResetPassword(s) ==
    /\ front(s) = "cli" /\ session[s].pc = "auth"
    /\ \E found_user \in Found :
          IF found_user = "raised"
          THEN crash(s, "auth_menu", "get_user_by_email")
          ELSE IF found_user = "none"
          THEN stay(s, "auth_menu", "get_user_by_email", "ok",
                    "No user with that email address was found.")
          ELSE \E confirmed \in BOOLEAN :
                  IF ~confirmed
                  THEN stay(s, "auth_menu", "get_user_by_email", "ok",
                            "Passwords do not match. Try again.")
                  ELSE \E updated \in {"True", "False", "raised"} :
                          IF updated = "raised"
                          THEN crash(s, "auth_menu", "update_user_password")
                          ELSE IF updated = "True"
                          THEN stay(s, "auth_menu", "update_user_password", "ok",
                                    "Password reset successful. You can now login.")
                          ELSE stay(s, "auth_menu", "update_user_password", "ok",
                                    "Password reset failed. Try again.")
    /\ UNCHANGED <<role, balance, Tables>>

\* choice == "4": exit
CliAuthExit(s) ==
    /\ front(s) = "cli" /\ session[s].pc = "auth"
    /\ move(s, "exited", NoUser, "auth_menu", "exit", "ok", "Goodbye!")
    /\ UNCHANGED <<role, balance, Tables>>

\* any other choice: the menu is shown again
CliAuthOther(s) ==
    /\ front(s) = "cli" /\ session[s].pc = "auth"
    /\ stay(s, "auth_menu", "none", "ok", "")
    /\ UNCHANGED <<role, balance, Tables>>

----------------------------------------------------------------------------
\* main.py: cli(), the main loop

\* The menu item a choice stands for: the is_admin(user) branch of the loop
admin_item(choice) ==
    CASE choice = "1" -> "create_bet"
      [] choice = "2" -> "place_prediction"
      [] choice = "3" -> "close_bet"
      [] choice = "4" -> "resolve_bet"
      [] choice = "5" -> "view_bets"
      [] choice = "6" -> "leaderboard"
      [] choice = "7" -> "user_management"
      [] choice = "8" -> "logout"
      [] choice = "9" -> "exit"
      [] choice = "10" -> "view_predictions"
      [] OTHER -> "invalid"

\* The else branch
member_item(choice) ==
    CASE choice = "1" -> "place_prediction"
      [] choice = "2" -> "view_bets"
      [] choice = "3" -> "leaderboard"
      [] choice = "4" -> "logout"
      [] choice = "5" -> "exit"
      [] choice = "6" -> "view_predictions"
      [] OTHER -> "invalid"

\* The main menu was shown to a logged-in user who chose item
chooses(s, item) ==
    /\ front(s) = "cli" /\ session[s].pc = "main" /\ session[s].user # NoUser
    /\ \E choice \in {"1", "2", "3", "4", "5", "6", "7", "8", "9", "10", "x"} :
          item = IF is_admin(session[s].user) THEN admin_item(choice)
                 ELSE member_item(choice)

\* create_bet(user, ...); print("Bet created.")
CliCreateBet(s) ==
    /\ chooses(s, "create_bet")
    /\ \E outcome \in Outcomes :
          IF outcome = "ok"
          THEN stay(s, "main_menu", "create_bet", "ok", "Bet created.")
          ELSE crash(s, "main_menu", "create_bet")
    /\ UNCHANGED <<role, balance, Tables>>

\* place_prediction(user, bet_id, pred) inside try/except
CliPlacePrediction(s) ==
    /\ chooses(s, "place_prediction")
    /\ \E open_bets \in Found :
          IF open_bets = "raised"
          THEN crash(s, "main_menu", "get_bet_overview")
          ELSE IF open_bets = "none"
          THEN stay(s, "main_menu", "none", "ok",
                    "No open bets available for predictions.")
          ELSE \E id_ok \in BOOLEAN :
                  IF ~id_ok
                  THEN stay(s, "main_menu", "none", "ok", "Invalid Bet ID.")
                  ELSE \E outcome \in Outcomes :
                          IF outcome = "ok"
                          THEN stay(s, "main_menu", "place_prediction", "ok",
                                    "Prediction placed.")
                          ELSE stay(s, "main_menu", "place_prediction",
                                    "raised", "Error:")
    /\ UNCHANGED <<role, balance, Tables>>

\* close_bet(user, bet_id); print("Bet closed.")
CliCloseBet(s) ==
    /\ chooses(s, "close_bet")
    /\ \E open_bets \in Found :
          IF open_bets = "raised"
          THEN crash(s, "main_menu", "get_bet_overview")
          ELSE IF open_bets = "none"
          THEN stay(s, "main_menu", "none", "ok", "No open bets to close.")
          ELSE \E id_ok \in BOOLEAN :
                  IF ~id_ok
                  THEN stay(s, "main_menu", "none", "ok", "Invalid Bet ID.")
                  ELSE \E outcome \in Outcomes :
                          IF outcome = "ok"
                          THEN stay(s, "main_menu", "close_bet", "ok",
                                    "Bet closed.")
                          ELSE crash(s, "main_menu", "close_bet")
    /\ UNCHANGED <<role, balance, Tables>>

\* resolve_bet(user, bet_id, answer), up to the first add_reedz of the
\* scorer.  resolve_bet raises before it scores, the scorer raises before it
\* credits, there is nothing to credit, or the scorer has its add_reedz calls
\* to make, each a request of its own to the database.
CliResolveBet(s) ==
    /\ chooses(s, "resolve_bet")
    /\ \E closed_bets \in Found :
          IF closed_bets = "raised"
          THEN /\ crash(s, "main_menu", "get_bet_overview")
               /\ runs' = runs
          ELSE IF closed_bets = "none"
          THEN /\ stay(s, "main_menu", "none", "ok",
                       "No bets available to resolve.")
               /\ runs' = runs
          ELSE \E id_ok \in BOOLEAN :
                  IF ~id_ok
                  THEN /\ stay(s, "main_menu", "none", "ok", "Invalid Bet ID.")
                       /\ runs' = runs
                  ELSE \/ /\ crash(s, "main_menu", "resolve_bet")
                          /\ runs' = runs
                       \/ \E bet \in SessionBets :
                             IF bet.plan.error # "none"
                             THEN /\ crash(s, "main_menu", "resolve_bet")
                                  /\ runs' = runs
                             ELSE IF bet.plan.calls = <<>>
                             THEN /\ stay(s, "main_menu", "resolve_bet", "ok",
                                          "Bet resolved and Reedz distributed.")
                                  /\ runs' = runs
                             ELSE /\ runs < MaxSessionRuns
                                  /\ runs' = runs + 1
                                  /\ session' =
                                        [session EXCEPT
                                            ![s].pc = "resolve_bet",
                                            ![s].calls = bet.plan.calls]
                                  /\ last' = Step(s, "main_menu", "resolve_bet",
                                                  "ok", "")
    /\ UNCHANGED <<role, balance, bets, predictions, credited, requests, passed>>

\* resolve_bet, the next supabase_db.add_reedz(pred.user_id, ...) of the
\* scorer: an update of the row of the predictor if there is one still.  The
\* credits made before a call that raises stay; after the last call,
\* print("Bet resolved and Reedz distributed.").
CliResolveBetAddReedz(s) ==
    /\ front(s) = "cli" /\ session[s].pc = "resolve_bet"
    /\ LET c == Head(session[s].calls)
           rest == Tail(session[s].calls)
       IN  \E outcome \in Outcomes :
              IF outcome = "raised"
              THEN /\ crash(s, "main_menu", "resolve_bet")
                   /\ UNCHANGED <<balance, credited, passed>>
              ELSE /\ passed' = pass(passed, <<c>>)
                   /\ IF role[c.user_id] = NoRow
                      THEN UNCHANGED <<balance, credited>>
                      ELSE /\ balance' = add_reedz(balance, c.user_id, c.delta)
                           /\ credited' = credit(credited, 1, <<c>>)
                   /\ IF rest = <<>>
                      THEN move(s, "main", session[s].user, "main_menu",
                                "resolve_bet", "ok",
                                "Bet resolved and Reedz distributed.")
                      ELSE /\ session' = [session EXCEPT ![s].calls = rest]
                           /\ last' = Step(s, "main_menu", "resolve_bet",
                                           "ok", "")
    /\ UNCHANGED <<role, bets, predictions, runs, requests>>

\* The read-only items: bets, leaderboard, predictions of a bet; their
\* queries are made outside try/except.  The predictions item first lists
\* the bets (none: "No bets found."), then reads a bet id inside
\* try/except ValueError ("Invalid Bet ID."), then fetches the predictions.
CliView(s) ==
    /\ \E item \in {"view_bets", "leaderboard", "view_predictions"} :
          /\ chooses(s, item)
          /\ IF item = "view_predictions"
             THEN \E all_bets \in Found :
                     IF all_bets = "raised"
                     THEN crash(s, "main_menu", item)
                     ELSE IF all_bets = "none"
                     THEN stay(s, "main_menu", item, "ok", "No bets found.")
                     ELSE \E id_ok \in BOOLEAN :
                             IF ~id_ok
                             THEN stay(s, "main_menu", item, "ok",
                                       "Invalid Bet ID.")
                             ELSE \E outcome \in Outcomes :
                                     IF outcome = "ok"
                                     THEN stay(s, "main_menu", item, "ok", "")
                                     ELSE crash(s, "main_menu", item)
             ELSE \E outcome \in Outcomes :
                     IF outcome = "ok"
                     THEN stay(s, "main_menu", item, "ok", "")
                     ELSE crash(s, "main_menu", item)
    /\ UNCHANGED <<role, balance, Tables>>

\* choice == "7": the user management submenu
CliUserManagement(s) ==
    /\ chooses(s, "user_management")
    /\ move(s, "user_management", session[s].user, "main_menu", "none", "ok", "")
    /\ UNCHANGED <<role, balance, Tables>>

\* Logout.  Admin branch: user = None, then while not user: choice =
\* auth_menu(), a loop whose body reads a choice and does nothing else.
\* Member branch: user = None, and the main loop goes on.
CliLogout(s) ==
    /\ chooses(s, "logout")
    /\ IF is_admin(session[s].user)
       THEN move(s, "logged_out", NoUser, "main_menu", "logout", "ok",
                 "Logging out...")
       ELSE move(s, "main", NoUser, "main_menu", "logout", "ok",
                 "Logging out...")
    /\ UNCHANGED <<role, balance, Tables>>

\* The loop after the logout of an admin: whatever is chosen, the
\* authentication menu is shown again
CliLoggedOut(s) ==
    /\ front(s) = "cli" /\ session[s].pc = "logged_out"
    /\ stay(s, "auth_menu", "none", "ok", "")
    /\ UNCHANGED <<role, balance, Tables>>

\* main_menu(None), after the logout of a member: the heading is printed
\* and is_admin(None) raises AttributeError
CliMainMenuWithoutUser(s) ==
    /\ front(s) = "cli" /\ session[s].pc = "main" /\ session[s].user = NoUser
    /\ crash(s, "main_menu", "none")
    /\ UNCHANGED <<role, balance, Tables>>

CliExit(s) ==
    /\ chooses(s, "exit")
    /\ move(s, "exited", NoUser, "main_menu", "exit", "ok", "Goodbye!")
    /\ UNCHANGED <<role, balance, Tables>>

CliInvalid(s) ==
    /\ chooses(s, "invalid")
    /\ stay(s, "main_menu", "none", "ok", "Invalid choice.")
    /\ UNCHANGED <<role, balance, Tables>>

----------------------------------------------------------------------------
\* main.py: cli(), the user management submenu.  Every item but the list of
\* users runs inside try/except, which prints the error and shows the
\* submenu again.

at_user_management(s) ==
    front(s) = "cli" /\ session[s].pc = "user_management"

\* sub_choice == "1": list users, outside try/except
CliListUsers(s) ==
    /\ at_user_management(s)
    /\ \E outcome \in Outcomes :
          IF outcome = "ok"
          THEN stay(s, "user_management_menu", "list_all_users", "ok", "")
          ELSE crash(s, "user_management_menu", "list_all_users")
    /\ UNCHANGED <<role, balance, Tables>>

\* sub_choice == "2": promote/demote
CliChangeRole(s) ==
    /\ at_user_management(s)
    /\ \E id_ok \in BOOLEAN :
          IF ~id_ok
          THEN /\ stay(s, "user_management_menu", "none", "raised", "Error:")
               /\ role' = role
          ELSE \E new_role \in Roles \cup {"x"}, code_ok \in BOOLEAN :
                  IF new_role = "Admin" /\ ~code_ok
                  THEN /\ stay(s, "user_management_menu", "none", "ok",
                               "Incorrect admin code. Promotion cancelled.")
                       /\ role' = role
                  ELSE IF new_role \notin Roles
                  THEN /\ stay(s, "user_management_menu", "none", "ok",
                               "Role must be 'Admin' or 'Member'.")
                       /\ role' = role
                  ELSE \E uid \in SessionUserIds, outcome \in Outcomes :
                          IF outcome = "ok"
                          THEN /\ stay(s, "user_management_menu", "change_role",
                                       "ok", "Role updated.")
                               /\ role' = change_role(role, uid, new_role)
                          ELSE /\ stay(s, "user_management_menu", "change_role",
                                       "raised", "Error:")
                               /\ role' = role
    /\ UNCHANGED <<balance, Tables>>

\* sub_choice == "3": change Reedz balance, up to the balance read by
\* list_all_users()
CliChangeReedz(s) ==
    /\ at_user_management(s)
    /\ \E id_ok \in BOOLEAN :
          IF ~id_ok
          THEN /\ stay(s, "user_management_menu", "none", "raised", "Error:")
               /\ runs' = runs
          ELSE \E uid \in AdjustedUserIds, reedz \in SessionTargets,
                  outcome \in Outcomes :
                  IF outcome = "raised"
                  THEN /\ stay(s, "user_management_menu", "list_all_users",
                               "raised", "Error:")
                       /\ runs' = runs
                  ELSE IF uid \notin list_all_users
                  THEN /\ stay(s, "user_management_menu", "list_all_users",
                               "ok", "User not found.")
                       /\ runs' = runs
                  ELSE /\ runs < MaxSessionRuns
                       /\ runs' = runs + 1
                       /\ session' =
                             [session EXCEPT
                                 ![s].pc = "change_reedz",
                                 ![s].change =
                                     [NoChange EXCEPT !.uid = uid,
                                                      !.target = reedz,
                                                      !.seen = balance[uid]]]
                       /\ last' = Step(s, "user_management_menu",
                                       "list_all_users", "ok", "")
    /\ UNCHANGED <<role, balance, bets, predictions, credited, requests, passed>>

\* sub_choice == "3", the rest: delta = reedz - user_obj['reedz_balance'];
\* add_reedz(uid, delta), an update of the row of uid if there is one still
CliChangeReedzAddReedz(s) ==
    /\ front(s) = "cli" /\ session[s].pc = "change_reedz"
    /\ LET change == session[s].change
       IN  \E outcome \in Outcomes :
              IF outcome = "ok"
              THEN /\ balance' =
                         IF role[change.uid] = NoRow THEN balance
                         ELSE add_reedz(balance, change.uid,
                                        adjust_delta(change.target, change.seen))
                   /\ passed' =
                         [passed EXCEPT ![change.uid] =
                             @ + adjust_delta(change.target, change.seen)]
                   /\ move(s, "user_management", session[s].user,
                           "user_management_menu", "add_reedz", "ok",
                           "Reedz updated.")
              ELSE /\ UNCHANGED <<balance, passed>>
                   /\ move(s, "user_management", session[s].user,
                           "user_management_menu", "add_reedz", "raised",
                           "Error:")
    /\ UNCHANGED <<role, bets, predictions, credited, runs, requests>>

\* sub_choice == "4": delete user
CliDeleteUser(s) ==
    /\ at_user_management(s)
    /\ \E id_ok \in BOOLEAN :
          IF ~id_ok
          THEN /\ stay(s, "user_management_menu", "none", "raised", "Error:")
               /\ UNCHANGED <<role, balance>>
          ELSE \E uid \in SessionUserIds, outcome \in Outcomes :
                  IF outcome = "ok"
                  THEN /\ stay(s, "user_management_menu", "delete_user", "ok",
                               "User deleted.")
                       /\ role' = delete_user(role, uid)
                       /\ balance' = [u \in Users |->
                                         IF u = uid THEN 0 ELSE balance[u]]
                  ELSE /\ stay(s, "user_management_menu", "delete_user",
                               "raised", "Error:")
                       /\ UNCHANGED <<role, balance>>
    /\ UNCHANGED Tables

\* sub_choice == "5": back to the main menu
CliReturn(s) ==
    /\ at_user_management(s)
    /\ move(s, "main", session[s].user, "user_management_menu", "none", "ok", "")
    /\ UNCHANGED <<role, balance, Tables>>

CliInvalidSubChoice(s) ==
    /\ at_user_management(s)
    /\ stay(s, "user_management_menu", "none", "ok", "Invalid choice.")
    /\ UNCHANGED <<role, balance, Tables>>

----------------------------------------------------------------------------
\* streamlit_app.py: run_app() is run once for every interaction; it shows
\* auth_panel() while st.session_state.user is None and main_panel()
\* otherwise.  The operations that write are called inside try/except, which
\* shows the error on the page; the queries are not.

at_auth_panel(s) == front(s) = "web" /\ session[s].pc = "auth"

\* auth_panel(): Login
WebLogin(s) ==
    /\ at_auth_panel(s)
    /\ \E outcome \in Outcomes :
          IF outcome = "raised"
          THEN traceback(s, "auth_panel", "authenticate")
          ELSE \E u \in LoginIds, password_ok \in BOOLEAN :
                  LET user == authenticate(u, password_ok)
                  IN  IF user # NoUser
                      THEN move(s, "main", user, "auth_panel", "authenticate",
                                "ok", "Logged in as")
                      ELSE stay(s, "auth_panel", "authenticate", "ok",
                                "Invalid credentials")
    /\ UNCHANGED <<role, balance, Tables>>

\* auth_panel(): Register
WebRegister(s) ==
    /\ at_auth_panel(s)
    /\ \/ /\ \E message \in {"All fields required",
                              "Username: letters/numbers only, no spaces"} :
                stay(s, "auth_panel", "none", "ok", message)
          /\ UNCHANGED <<role, balance>>
       \/ \E new_role \in Roles, code_ok \in BOOLEAN :
             IF new_role = "Admin" /\ ~code_ok
             THEN /\ stay(s, "auth_panel", "none", "ok", "Incorrect admin code")
                  /\ UNCHANGED <<role, balance>>
             ELSE \E outcome \in Outcomes :
                     IF outcome = "ok"
                     THEN /\ \E u \in NewUserIds :
                                /\ role[u] = NoRow
                                /\ role' = create_user(role, u, new_role)
                                /\ balance' = [balance EXCEPT ![u] = 0]
                          /\ stay(s, "auth_panel", "create_user", "ok",
                                  "Registered! Please log in.")
                     ELSE /\ \E message \in {"Username/email already exists",
                                              "All fields must be valid",
                                              "Registration failed:"} :
                                stay(s, "auth_panel", "create_user", "raised",
                                     message)
                          /\ UNCHANGED <<role, balance>>
    /\ UNCHANGED Tables

\* The step sets st.session_state["sent_reset_email"]
flag(s, sent, op, result, message) ==
    /\ session' = [session EXCEPT ![s].sent_reset_email = sent]
    /\ last' = Step(s, "auth_panel", op, result, message)

\* auth_panel(): Reset Password, the form "Send Reset Code" (e-mail
\* addresses and reset codes are not part of the state)
WebSendResetCode(s) ==
    /\ at_auth_panel(s)
    /\ \E found_user \in Found :
          IF found_user = "raised"
          THEN traceback(s, "auth_panel", "get_user_by_email")
          ELSE IF found_user = "none"
          THEN stay(s, "auth_panel", "get_user_by_email", "ok",
                    "No account found for this email")
          ELSE \E sent \in {"True", "False", "raised"} :
                  IF sent = "raised"
                  THEN traceback(s, "auth_panel", "set_user_reset_code")
                  ELSE IF sent = "True"
                  THEN flag(s, TRUE, "set_user_reset_code", "ok",
                            "Reset code sent to your email (5min expiry)")
                  ELSE flag(s, FALSE, "set_user_reset_code", "ok",
                            "Email failed:")
    /\ UNCHANGED <<role, balance, Tables>>

\* auth_panel(): Reset Password, the form "Change Password", shown once a
\* reset code was sent (passwords are not part of the state)
WebResetPassword(s) ==
    /\ at_auth_panel(s)
    /\ session[s].sent_reset_email
    /\ \/ \E message \in {"Complete all fields", "Passwords don't match"} :
             stay(s, "auth_panel", "none", "ok", message)
       \/ \E code \in {"True", "False", "raised"} :
             IF code = "raised"
             THEN traceback(s, "auth_panel", "check_reset_code")
             ELSE IF code = "False"
             THEN stay(s, "auth_panel", "check_reset_code", "ok",
                       "Invalid/expired code")
             ELSE \E updated \in {"True", "False", "raised"} :
                     IF updated = "raised"
                     THEN traceback(s, "auth_panel", "update_user_password")
                     ELSE IF updated = "False"
                     THEN stay(s, "auth_panel", "update_user_password", "ok",
                               "Update failed")
                     ELSE \E cleared \in Outcomes :
                             IF cleared = "raised"
                             THEN traceback(s, "auth_panel", "clear_reset_code")
                             ELSE flag(s, FALSE, "update_user_password", "ok",
                                       "Password updated! Please log in.")
    /\ UNCHANGED <<role, balance, Tables>>

\* auth_panel(): Reset Password, the button "Cancel" of that form
WebCancelReset(s) ==
    /\ at_auth_panel(s)
    /\ session[s].sent_reset_email
    /\ flag(s, FALSE, "none", "ok", "")
    /\ UNCHANGED <<role, balance, Tables>>

\* main_panel(): the pages the sidebar offers
pages(user) ==
    {"My Profile", "Leaderboard", "All Bets", "Place Prediction",
     "View Predictions for a Bet"}
    \cup (IF is_admin(user)
          THEN {"Create Bet", "Close Bet", "Resolve Bet", "User Management"}
          ELSE {})

\* main_panel() runs and page is the page selected in the sidebar
opens(s, page) ==
    /\ front(s) = "web" /\ session[s].pc = "main"
    /\ page \in pages(session[s].user)

\* create_bet_panel(user)
WebCreateBet(s) ==
    /\ opens(s, "Create Bet")
    /\ \E outcome \in Outcomes :
          IF outcome = "ok"
          THEN stay(s, "main_panel", "create_bet", "ok",
                    "Bet created successfully")
          ELSE stay(s, "main_panel", "create_bet", "raised", "error")
    /\ UNCHANGED <<role, balance, Tables>>

\* place_prediction_panel(user)
WebPlacePrediction(s) ==
    /\ opens(s, "Place Prediction")
    /\ \E open_bets \in Found :
          IF open_bets = "raised"
          THEN traceback(s, "main_panel", "get_bet_overview")
          ELSE IF open_bets = "none"
          THEN stay(s, "main_panel", "none", "ok", "No open bets available")
          ELSE \E outcome \in Outcomes :
                  IF outcome = "ok"
                  THEN stay(s, "main_panel", "place_prediction", "ok",
                            "Prediction placed!")
                  ELSE stay(s, "main_panel", "place_prediction", "raised", "error")
    /\ UNCHANGED <<role, balance, Tables>>

\* close_bet_panel(user)
WebCloseBet(s) ==
    /\ opens(s, "Close Bet")
    /\ \E open_bets \in Found :
          IF open_bets = "raised"
          THEN traceback(s, "main_panel", "get_bet_overview")
          ELSE IF open_bets = "none"
          THEN stay(s, "main_panel", "none", "ok", "No open bets")
          ELSE \E outcome \in Outcomes :
                  IF outcome = "ok"
                  THEN stay(s, "main_panel", "close_bet", "ok",
                            "Bet closed")
                  ELSE stay(s, "main_panel", "close_bet", "raised", "error")
    /\ UNCHANGED <<role, balance, Tables>>

\* resolve_bet_panel(user): resolve_bet(user, bet_id, answer), up to the
\* first add_reedz of the scorer
WebResolveBet(s) ==
    /\ opens(s, "Resolve Bet")
    /\ \E closed_bets \in Found :
          IF closed_bets = "raised"
          THEN /\ traceback(s, "main_panel", "get_bet_overview")
               /\ runs' = runs
          ELSE IF closed_bets = "none"
          THEN /\ stay(s, "main_panel", "none", "ok", "No closed bets to resolve")
               /\ runs' = runs
          ELSE \/ /\ stay(s, "main_panel", "resolve_bet", "raised", "error")
                  /\ runs' = runs
               \/ \E bet \in SessionBets :
                     IF bet.plan.error # "none"
                     THEN /\ stay(s, "main_panel", "resolve_bet", "raised",
                                  "error")
                          /\ runs' = runs
                     ELSE IF bet.plan.calls = <<>>
                     THEN /\ stay(s, "main_panel", "resolve_bet", "ok",
                                  "Bet resolved + Reedz distributed!")
                          /\ runs' = runs
                     ELSE /\ runs < MaxSessionRuns
                          /\ runs' = runs + 1
                          /\ session' =
                                [session EXCEPT
                                    ![s].pc = "resolve_bet",
                                    ![s].calls = bet.plan.calls]
                          /\ last' = Step(s, "main_panel", "resolve_bet",
                                          "ok", "")
    /\ UNCHANGED <<role, balance, bets, predictions, credited, requests, passed>>

\* resolve_bet_panel(user), the next supabase_db.add_reedz of the scorer;
\* the credits made before a call that raises stay
WebResolveBetAddReedz(s) ==
    /\ front(s) = "web" /\ session[s].pc = "resolve_bet"
    /\ LET c == Head(session[s].calls)
           rest == Tail(session[s].calls)
       IN  \E outcome \in Outcomes :
              IF outcome = "raised"
              THEN /\ move(s, "main", session[s].user, "main_panel",
                           "resolve_bet", "raised", "error")
                   /\ UNCHANGED <<balance, credited, passed>>
              ELSE /\ passed' = pass(passed, <<c>>)
                   /\ IF role[c.user_id] = NoRow
                      THEN UNCHANGED <<balance, credited>>
                      ELSE /\ balance' = add_reedz(balance, c.user_id, c.delta)
                           /\ credited' = credit(credited, 1, <<c>>)
                   /\ IF rest = <<>>
                      THEN move(s, "main", session[s].user, "main_panel",
                                "resolve_bet", "ok",
                                "Bet resolved + Reedz distributed!")
                      ELSE /\ session' = [session EXCEPT ![s].calls = rest]
                           /\ last' = Step(s, "main_panel", "resolve_bet",
                                           "ok", "")
    /\ UNCHANGED <<role, bets, predictions, runs, requests>>

\* profile_panel(user): get_user_by_id(user.user_id)
WebProfile(s) ==
    /\ opens(s, "My Profile")
    /\ \E outcome \in Outcomes :
          IF outcome = "raised"
          THEN traceback(s, "main_panel", "My Profile")
          ELSE IF role[session[s].user.user_id] = NoRow
          THEN stay(s, "main_panel", "My Profile", "ok", "Profile not found")
          ELSE stay(s, "main_panel", "My Profile", "ok", "")
    /\ UNCHANGED <<role, balance, Tables>>

\* leaderboard_panel, bets_panel, predictions_panel: their queries are
\* made outside try/except
WebView(s) ==
    /\ \E page \in {"Leaderboard", "All Bets", "View Predictions for a Bet"} :
          /\ opens(s, page)
          /\ \E outcome \in Outcomes :
                IF outcome = "ok"
                THEN stay(s, "main_panel", page, "ok", "")
                ELSE traceback(s, "main_panel", page)
    /\ UNCHANGED <<role, balance, Tables>>

\* user_management_panel(): List users
WebListUsers(s) ==
    /\ opens(s, "User Management")
    /\ \E outcome \in Outcomes :
          IF outcome = "ok"
          THEN stay(s, "main_panel", "list_all_users", "ok", "")
          ELSE traceback(s, "main_panel", "list_all_users")
    /\ UNCHANGED <<role, balance, Tables>>

\* user_management_panel(): Promote/Demote, up to the user selected from
\* the rows list_all_users() read.  When list_all_users() raises, or the
\* list is empty and user_map[None] raises KeyError, the page shows the
\* exception.
WebChangeRole(s) ==
    /\ opens(s, "User Management")
    /\ \E listed \in Outcomes :
          IF listed = "raised" \/ list_all_users = {}
          THEN traceback(s, "main_panel", "list_all_users")
          ELSE \E new_role \in Roles, code_ok \in BOOLEAN :
                  IF new_role = "Admin" /\ ~code_ok
                  THEN stay(s, "main_panel", "list_all_users", "ok",
                            "Wrong admin code")
                  ELSE \E uid \in list_all_users \cap SessionUserIds :
                          /\ session' =
                                [session EXCEPT
                                    ![s].pc = "change_role",
                                    ![s].change =
                                        [NoChange EXCEPT !.uid = uid,
                                                         !.new_role = new_role]]
                          /\ last' = Step(s, "main_panel", "list_all_users",
                                          "ok", "")
    /\ UNCHANGED <<role, balance, Tables>>

\* user_management_panel(): Promote/Demote, the rest:
\* supabase_db.change_role(uid, new_role), an update of the row of uid if
\* there is one still
WebChangeRoleChangeRole(s) ==
    /\ front(s) = "web" /\ session[s].pc = "change_role"
    /\ LET change == session[s].change
       IN  \E outcome \in Outcomes :
              IF outcome = "ok"
              THEN /\ role' = change_role(role, change.uid, change.new_role)
                   /\ move(s, "main", session[s].user, "main_panel",
                           "change_role", "ok", "Role updated")
              ELSE /\ role' = role
                   /\ move(s, "main", session[s].user, "main_panel",
                           "change_role", "raised", "error")
    /\ UNCHANGED <<balance, Tables>>

\* user_management_panel(): Change Reedz, up to the balance read by
\* list_all_users() in the run of the button "Update Balance"
WebChangeReedz(s) ==
    /\ opens(s, "User Management")
    /\ \E listed \in Outcomes :
          IF listed = "raised" \/ list_all_users = {}
          THEN /\ traceback(s, "main_panel", "list_all_users")
               /\ runs' = runs
          ELSE \E uid \in list_all_users \cap AdjustedUserIds, new_balance \in SessionTargets :
                  /\ runs < MaxSessionRuns
                  /\ runs' = runs + 1
                  /\ session' =
                        [session EXCEPT
                            ![s].pc = "change_reedz",
                            ![s].change =
                                [NoChange EXCEPT !.uid = uid,
                                                 !.target = new_balance,
                                                 !.seen = balance[uid]]]
                  /\ last' = Step(s, "main_panel", "list_all_users", "ok", "")
    /\ UNCHANGED <<role, balance, bets, predictions, credited, requests, passed>>

\* user_management_panel(): Change Reedz, the rest: delta = new_balance -
\* user_data['reedz_balance']; add_reedz(user_data['user_id'], delta)
WebChangeReedzAddReedz(s) ==
    /\ front(s) = "web" /\ session[s].pc = "change_reedz"
    /\ LET change == session[s].change
       IN  \E outcome \in Outcomes :
              IF outcome = "ok"
              THEN /\ balance' =
                         IF role[change.uid] = NoRow THEN balance
                         ELSE add_reedz(balance, change.uid,
                                        adjust_delta(change.target, change.seen))
                   /\ passed' =
                         [passed EXCEPT ![change.uid] =
                             @ + adjust_delta(change.target, change.seen)]
                   /\ move(s, "main", session[s].user, "main_panel",
                           "add_reedz", "ok", "Balance updated")
              ELSE /\ UNCHANGED <<balance, passed>>
                   /\ move(s, "main", session[s].user, "main_panel",
                           "add_reedz", "raised", "error")
    /\ UNCHANGED <<role, bets, predictions, credited, runs, requests>>

\* user_management_panel(): Delete user, up to the user selected from the
\* rows list_all_users() read
WebDeleteUser(s) ==
    /\ opens(s, "User Management")
    /\ \E listed \in Outcomes :
          IF listed = "raised" \/ list_all_users = {}
          THEN traceback(s, "main_panel", "list_all_users")
          ELSE \E uid \in list_all_users \cap SessionUserIds :
                  /\ session' =
                        [session EXCEPT
                            ![s].pc = "delete_user",
                            ![s].change = [NoChange EXCEPT !.uid = uid]]
                  /\ last' = Step(s, "main_panel", "list_all_users", "ok", "")
    /\ UNCHANGED <<role, balance, Tables>>

\* user_management_panel(): Delete user, the rest:
\* supabase_db.delete_user(uid), which deletes the row of uid if there is
\* one still
WebDeleteUserDeleteUser(s) ==
    /\ front(s) = "web" /\ session[s].pc = "delete_user"
    /\ LET uid == session[s].change.uid
       IN  \E outcome \in Outcomes :
              IF outcome = "ok"
              THEN /\ role' = delete_user(role, uid)
                   /\ balance' = [u \in Users |->
                                     IF u = uid THEN 0 ELSE balance[u]]
                   /\ move(s, "main", session[s].user, "main_panel",
                           "delete_user", "ok", "User deleted")
              ELSE /\ UNCHANGED <<role, balance>>
                   /\ move(s, "main", session[s].user, "main_panel",
                           "delete_user", "raised", "error")
    /\ UNCHANGED Tables

\* user_management_panel(): Season Reset deletes all bets and predictions
WebSeasonReset(s) ==
    /\ opens(s, "User Management")
    /\ \E listed \in Outcomes :
          IF listed = "raised"
          THEN /\ traceback(s, "main_panel", "list_all_users")
               /\ UNCHANGED <<bets, predictions>>
          ELSE \E outcome \in Outcomes :
                  IF outcome = "ok"
                  THEN /\ stay(s, "main_panel", "reset_season", "ok",
                               "Season reset complete!")
                       /\ bets' = [b \in BetIds |-> NoBet]
                       /\ predictions' = <<>>
                  ELSE /\ stay(s, "main_panel", "reset_season", "raised",
                               "Reset failed:")
                       /\ UNCHANGED <<bets, predictions>>
    /\ UNCHANGED <<role, balance, credited, runs, requests, passed>>

\* main_panel(): the Logout button
WebLogout(s) ==
    /\ front(s) = "web" /\ session[s].pc = "main"
    /\ move(s, "auth", NoUser, "main_panel", "logout", "ok", "")
    /\ UNCHANGED <<role, balance, Tables>>

----------------------------------------------------------------------------
NextSession ==
    \E s \in Sessions :
        \/ CliRegister(s) \/ CliLogin(s) \/ CliResetPassword(s)
        \/ CliAuthExit(s) \/ CliAuthOther(s)
        \/ CliCreateBet(s) \/ CliPlacePrediction(s) \/ CliCloseBet(s)
        \/ CliResolveBet(s) \/ CliResolveBetAddReedz(s)
        \/ CliView(s) \/ CliUserManagement(s)
        \/ CliLogout(s) \/ CliLoggedOut(s) \/ CliMainMenuWithoutUser(s)
        \/ CliExit(s) \/ CliInvalid(s)
        \/ CliListUsers(s) \/ CliChangeRole(s) \/ CliChangeReedz(s)
        \/ CliChangeReedzAddReedz(s) \/ CliDeleteUser(s) \/ CliReturn(s)
        \/ CliInvalidSubChoice(s)
        \/ WebLogin(s) \/ WebRegister(s) \/ WebSendResetCode(s)
        \/ WebResetPassword(s) \/ WebCancelReset(s)
        \/ WebCreateBet(s) \/ WebPlacePrediction(s) \/ WebCloseBet(s)
        \/ WebResolveBet(s) \/ WebResolveBetAddReedz(s)
        \/ WebProfile(s) \/ WebView(s) \/ WebListUsers(s)
        \/ WebChangeRole(s) \/ WebChangeRoleChangeRole(s)
        \/ WebChangeReedz(s) \/ WebChangeReedzAddReedz(s)
        \/ WebDeleteUser(s) \/ WebDeleteUserDeleteUser(s)
        \/ WebSeasonReset(s) \/ WebLogout(s)

SessionSpec == InitSession /\ [][NextSession]_vars

----------------------------------------------------------------------------
\* Vocabulary of the properties: the bet and predictions of the last scoring
\* run, and the quantities the specification speaks of

TheBet == bets[last.bet_id]
ThePreds == get_predictions_for_bet(last.bet_id)
N == Len(ThePreds)

Scored == last.op = "distribute"
NumberBet == TheBet.answer_type = "number"
TextBet == TheBet.answer_type = "text"

AnswerParses == float(TheBet.correct_answer).ok
AllParse == AnswerParses /\ \A i \in 1..N : float(ThePreds[i].prediction).ok

\* Every text that float() accepts is parseable, nan included
Correct == float(TheBet.correct_answer)
Value(i) == float(ThePreds[i].prediction)
Finite(i) == ~Value(i).nan /\ ~Correct.nan
AllFinite == \A i \in 1..N : Finite(i)

\* |prediction - correct_answer| as a float: nan when either side is nan
Error(i) ==
    IF Finite(i)
    THEN [nan |-> FALSE, value |-> abs(Value(i).value - Correct.value)]
    ELSE [nan |-> TRUE, value |-> 0]

ErrorIs(i, e) == ~Error(i).nan /\ Error(i).value = e
SameError(i, j) == float_eq(Error(i), Error(j))
SmallerError(i, j) == float_lt(Error(i), Error(j))
Exact(i) == float_eq(Value(i), Correct)

OnePredictionPerUser ==
    \A i, j \in 1..N : ThePreds[i].user_id = ThePreds[j].user_id => i = j

\* L: the predictions strictly closer to the correct answer than prediction i
Closer(i) == Cardinality({j \in 1..N : SmallerError(j, i)})

RankAmount(i) == (N - Closer(i)) + (IF Exact(i) THEN 5 ELSE 0)

Normalized(s) == lower(strip(s))
TextAmount(i) ==
    IF Normalized(ThePreds[i].prediction) = Normalized(TheBet.correct_answer)
    THEN N + 5 ELSE 0

CallsFor(i) == {k \in 1..Len(last.calls) : last.calls[k].pred = i}
CallsTo(u) == {k \in 1..Len(last.calls) : last.calls[k].user_id = u}
Predictors == {ThePreds[i].user_id : i \in 1..N}

----------------------------------------------------------------------------
\* The content of C1 for given lists: every add_reedz call made for a
\* prediction carries n - L plus the perfect bonus, L being the number of
\* predictions with a strictly smaller absolute error, and after a
\* successful run every predictor has been credited exactly that amount.
RankPointsCredited ==
    /\ \A k \in 1..Len(last.calls) :
          LET i == last.calls[k].pred
          IN  /\ last.calls[k].user_id = ThePreds[i].user_id
              /\ last.calls[k].delta = RankAmount(i)
    /\ last.result = "ok" =>
          \A i \in 1..N :
              /\ Cardinality(CallsFor(i)) = 1
              /\ credited[last.bet_id][ThePreds[i].user_id] = RankAmount(i)
              /\ balance[ThePreds[i].user_id] = RankAmount(i)

\* C1 (as claimed): on a 'number' bet with n >= 1 parseable predictions, at
\* most one per user, each predictor is credited a base of n - L rank
\* points, L being the number of predictions with a strictly smaller
\* absolute error (so a unique closest prediction has base n).
C1_RankPoints ==
    (Scored /\ NumberBet /\ N >= 1 /\ AllParse /\ OnePredictionPerUser) =>
        RankPointsCredited

\* C1, the runs without nan: when the correct answer and every prediction
\* parse to a number other than nan, each predictor is credited n - L plus
\* the perfect bonus.
C1_RankPointsFinite ==
    (Scored /\ NumberBet /\ N >= 1 /\ AllParse /\ AllFinite
        /\ OnePredictionPerUser) => RankPointsCredited

\* C1 witness: three users, a unique exact prediction credited 3 + 5 and two
\* predictions tied at a non-zero error credited 3 - 1 each (scenario A).
C1_Witness ==
    /\ Scored /\ NumberBet /\ N = 3 /\ AllParse /\ OnePredictionPerUser
    /\ last.result = "ok"
    /\ \E i, j, k \in 1..N :
          /\ i # j /\ ErrorIs(k, 0) /\ SameError(i, j) /\ ~ErrorIs(i, 0)
          /\ Value(i) # Value(j)
          /\ balance[ThePreds[k].user_id] = 8
          /\ balance[ThePreds[i].user_id] = 2
          /\ balance[ThePreds[j].user_id] = 2

\* C1, a run with nan: the unique closest prediction, an exact one, stored
\* after a nan prediction is credited 2 + 5 where n = 3.
C1_ClosestBehindNan ==
    /\ Scored /\ NumberBet /\ N = 3 /\ AllParse /\ OnePredictionPerUser
    /\ last.result = "ok"
    /\ Value(1).nan /\ Exact(2) /\ Closer(2) = 0
    /\ balance[ThePreds[2].user_id] = 7

\* C2: on a 'text' bet with n >= 1 predictions every add_reedz call made for
\* a prediction carries n + 5 when the trimmed, lower-cased prediction equals
\* the trimmed, lower-cased correct answer and 0 otherwise, n being the
\* number of predictions on the bet; a successful run makes exactly one call
\* for every prediction.
C2_TextAmounts ==
    (Scored /\ TextBet /\ N >= 1) =>
        /\ last.result # "ValueError"
        /\ \A k \in 1..Len(last.calls) :
              LET i == last.calls[k].pred
              IN  /\ last.calls[k].user_id = ThePreds[i].user_id
                  /\ last.calls[k].delta = TextAmount(i)
        /\ last.result = "ok" => \A i \in 1..N : Cardinality(CallsFor(i)) = 1

\* C2 witness: two matches that differ from the answer in case and blanks,
\* and one non-match: of three predictions the matches are credited 8 each.
C2_Witness ==
    /\ Scored /\ TextBet /\ N = 3 /\ last.result = "ok"
    /\ \E i, j, k \in 1..N :
          /\ i # j
          /\ ThePreds[i].prediction # TheBet.correct_answer
          /\ TextAmount(i) = 8 /\ TextAmount(j) = 8 /\ TextAmount(k) = 0
          /\ \E c \in CallsFor(i) : last.calls[c].delta = 8
          /\ \E c \in CallsFor(k) : last.calls[c].delta = 0

\* C3 (as claimed): on a 'number' bet, whatever the list of predictions, two
\* predictions with the same absolute error are credited the same amount.
C3_TiesCreditedAlike ==
    (Scored /\ NumberBet /\ AllParse) =>
        \A k1, k2 \in 1..Len(last.calls) :
            SameError(last.calls[k1].pred, last.calls[k2].pred)
                => last.calls[k1].delta = last.calls[k2].delta

\* C4 (as claimed): on a 'number' bet the amount credited for a prediction
\* includes the +5 bonus if and only if the prediction's parsed value equals
\* the parsed correct answer.
C4_BonusIffExact ==
    (Scored /\ NumberBet /\ AllParse) =>
        \A k \in 1..Len(last.calls) :
            last.calls[k].bonus <=> Exact(last.calls[k].pred)

\* C5 (as claimed): a successful scoring run of a 'number' or 'text' bet
\* invokes add_reedz exactly once for each user who predicted on the bet.
C5_OneCallPerUser ==
    (Scored /\ (NumberBet \/ TextBet) /\ last.result = "ok") =>
        \A u \in Predictors : Cardinality(CallsTo(u)) = 1

\* C7 (as claimed): a run in which an add_reedz call fails has changed no
\* balance: after a run either every computed credit is applied or none.
C7_AllOrNothing ==
    [][(runs' = runs + 1 /\ last'.result = "PersistenceFailure")
            => balance' = balance]_vars

\* C8 (as claimed): scoring a 'number' bet whose correct answer does not
\* parse fails with an error and changes no balance.
C8_UnparseableAnswerFails ==
    [][(runs' = runs + 1 /\ bets[last'.bet_id].answer_type = "number"
          /\ ~float(bets[last'.bet_id].correct_answer).ok)
            => (last'.result = "ValueError" /\ last'.calls = <<>>
                /\ balance' = balance)]_vars

\* C8 (amended): scoring a 'number' bet that has at least one prediction and
\* whose correct answer does not parse fails with ValueError before any
\* add_reedz call, and every balance is as before the call.
C8_UnparseableAnswerFailsIfPredicted ==
    [][(runs' = runs + 1 /\ bets[last'.bet_id].answer_type = "number"
          /\ ~float(bets[last'.bet_id].correct_answer).ok
          /\ Len(get_predictions_for_bet(last'.bet_id)) >= 1)
            => (last'.result = "ValueError" /\ last'.calls = <<>>
                /\ balance' = balance /\ credited' = credited)]_vars

\* C8 witness: a 'number' bet with correct answer "A " and a parseable
\* prediction was scored: ValueError, nobody credited.
C8_Witness ==
    /\ Scored /\ NumberBet /\ ~AnswerParses /\ N >= 1
    /\ \A i \in 1..N : float(ThePreds[i].prediction).ok
    /\ last.result = "ValueError"
    /\ \A u \in Users : balance[u] = 0

\* C9: scoring a bet with zero predictions makes no add_reedz call, changes
\* no balance and raises no error, whatever the answer_type and the correct
\* answer.
C9_NoPredictionsNoEffect ==
    [][(runs' = runs + 1 /\ Len(get_predictions_for_bet(last'.bet_id)) = 0)
            => (last'.result = "ok" /\ last'.calls = <<>>
                /\ balance' = balance /\ credited' = credited)]_vars

\* C9 witness: a 'number' bet with an unparseable correct answer and no
\* prediction was scored without error.
C9_Witness ==
    /\ Scored /\ NumberBet /\ ~AnswerParses /\ N = 0
    /\ last.result = "ok" /\ last.calls = <<>>

\* The amount a complete scoring run of bet b credits to user u
ComputedAmount(b, u) ==
    LET plan == scoring_plan(bets[b], get_predictions_for_bet(b))
    IN  delta_sum(plan.calls, Len(plan.calls), u)

\* C6 (as claimed): over any sequence of scoring runs for a bet, a retry
\* after a failed run included, the total credited to a user for the bet
\* never exceeds the amount computed for that user.
C6_NoDoubleCredit ==
    \A b \in BetIds, u \in Users :
        bets[b].exists => credited[b][u] <= ComputedAmount(b, u)

\* C10: resolve called by an admin on an existing bet whose is_closed flag is
\* false fails with InvalidState; the bets table (flags, correct_answer,
\* resolved_at), every balance and the predictions are as before and no
\* scoring run was started.  (A caller who is not an admin is refused as
\* Unauthorized before the bet is looked at.)
C10_ResolveRequiresClosed ==
    [][(last'.op = "resolve" /\ last'.result # "Unauthorized"
          /\ bets[last'.bet_id].exists /\ ~bets[last'.bet_id].is_closed)
            => (last'.result = "InvalidState" /\ last'.calls = <<>>
                /\ bets' = bets /\ balance' = balance
                /\ predictions' = predictions
                /\ credited' = credited /\ runs' = runs)]_vars

\* C10 witness: while another bet is closed, resolve was called on an open
\* bet that holds a prediction: InvalidState, the bet still open and without
\* a correct answer, nobody credited.
C10_Witness ==
    /\ last.op = "resolve" /\ last.result = "InvalidState"
    /\ TheBet.exists /\ TheBet.is_open /\ ~TheBet.is_closed /\ ~TheBet.is_resolved
    /\ TheBet.correct_answer = None /\ TheBet.resolved_at = 0
    /\ N >= 1
    /\ \E c \in BetIds : c # last.bet_id /\ bets[c].is_closed
    /\ \A u \in Users : balance[u] = 0
    /\ runs = 0

----------------------------------------------------------------------------
\* The bet lifecycle

\* C11: a prediction is stored only by place_prediction on a bet that is
\* open at that moment; place_prediction on an existing bet that is not open
\* is rejected as InvalidState and stores nothing; on an open bet it is
\* accepted from every user (each is an Admin or a Member) and stores exactly
\* one row for that bet, whether or not close_at has passed.
C11_PredictionsOnlyWhileOpen ==
    [][/\ predictions' # predictions =>
            /\ last'.op = "place" /\ last'.result = "ok"
            /\ bets[last'.bet_id].exists /\ bets[last'.bet_id].is_open
       /\ (last'.op = "place" /\ bets[last'.bet_id].exists) =>
            IF bets[last'.bet_id].is_open
            THEN /\ last'.result = "ok"
                 /\ \E u \in Users, v \in TypedPredictions :
                       predictions' = Append(predictions,
                           [user_id |-> u, bet_id |-> last'.bet_id,
                            prediction |-> v])
            ELSE /\ last'.result = "InvalidState"
                 /\ predictions' = predictions]_vars

\* C11 witness: a prediction placed after close_at on an open bet was
\* accepted; the bet holds a prediction of the Admin and one of a Member.
C11_Witness ==
    /\ last.op = "place" /\ last.result = "ok" /\ last.late
    /\ TheBet.is_open
    /\ \E i, j \in 1..N :
          /\ role[ThePreds[i].user_id] = "Admin"
          /\ role[ThePreds[j].user_id] = "Member"

\* The rejection case of C11: place_prediction on a closed bet that holds one
\* prediction was refused.
C11_Rejected ==
    /\ last.op = "place" /\ last.result = "InvalidState"
    /\ TheBet.exists /\ ~TheBet.is_open /\ N = 1

\* C12: every bet is in at most one of the states open, closed-not-resolved
\* and resolved (in particular is_open and is_closed are never both true),
\* is_resolved implies is_closed, and correct_answer is set exactly when
\* is_resolved is true.
C12_FlagsConsistent ==
    \A b \in BetIds :
        bets[b].exists =>
            /\ ~(bets[b].is_open /\ bets[b].is_closed)
            /\ ~(bets[b].is_open /\ bets[b].is_resolved)
            /\ bets[b].is_resolved => bets[b].is_closed
            /\ (bets[b].correct_answer # None) <=> bets[b].is_resolved

\* C12 witness: one bet is resolved with its correct answer stored while
\* another is closed and not resolved.
C12_Witness ==
    \E b, c \in BetIds :
        /\ bets[b].is_resolved /\ bets[b].is_closed /\ ~bets[b].is_open
        /\ bets[b].correct_answer \in TypedAnswers
        /\ bets[c].is_closed /\ ~bets[c].is_resolved /\ ~bets[c].is_open
        /\ bets[c].correct_answer = None

\* C13 (as claimed): every bet starts open and only moves forward: once
\* is_open is false it stays false, once is_closed is true it stays true,
\* once is_resolved is true it stays true, and the correct_answer and
\* resolved_at of a resolved bet never change.
C13_LifecycleForward ==
    [][\A b \in BetIds :
          /\ (~bets[b].exists /\ bets'[b].exists) =>
                (bets'[b].is_open /\ ~bets'[b].is_closed /\ ~bets'[b].is_resolved)
          /\ bets[b].exists =>
                /\ bets'[b].exists
                /\ ~bets[b].is_open => ~bets'[b].is_open
                /\ bets[b].is_closed => bets'[b].is_closed
                /\ bets[b].is_resolved =>
                      /\ bets'[b].is_resolved
                      /\ bets'[b].correct_answer = bets[b].correct_answer
                      /\ bets'[b].resolved_at = bets[b].resolved_at]_vars

\* The part of C13 about the flags alone: they only move forward.
C13_FlagsForward ==
    [][\A b \in BetIds :
          /\ (~bets[b].exists /\ bets'[b].exists) =>
                (bets'[b].is_open /\ ~bets'[b].is_closed /\ ~bets'[b].is_resolved)
          /\ bets[b].exists =>
                /\ bets'[b].exists
                /\ ~bets[b].is_open => ~bets'[b].is_open
                /\ bets[b].is_closed => bets'[b].is_closed
                /\ bets[b].is_resolved => bets'[b].is_resolved]_vars

\* The rows of table predictions that belong to bet b
RowsOf(b) == SelectSeq(predictions, LAMBDA p : p.bet_id = b)

\* What a successful resolve of bet b has stored
ResolveStored(b) ==
    /\ bets[b].is_closed
    /\ bets'[b].is_resolved /\ bets'[b].is_closed
    /\ bets'[b].correct_answer \in TypedAnswers
    /\ bets'[b].resolved_at = runs'
    /\ \A c \in BetIds \ {b} : bets'[c] = bets[c]
    /\ predictions' = predictions

\* The scorer has credited the predictions of bet b and no others
ResolveCredited(b) ==
    LET rows == RowsOf(b)
    IN  /\ Len(last'.calls) = Len(rows)
        /\ \A i \in 1..Len(rows) :
              \E k \in 1..Len(last'.calls) :
                  /\ last'.calls[k].pred = i
                  /\ last'.calls[k].user_id = rows[i].user_id
        /\ \A u \in Users :
              balance'[u] = balance[u]
                  + delta_sum(last'.calls, Len(last'.calls), u)
        /\ \A u \in Users :
              (\A i \in 1..Len(rows) : rows[i].user_id # u)
                  => balance'[u] = balance[u]

\* C14: a resolve that returns success was made on a closed bet, has stored
\* the correct answer, is_resolved = true and resolved_at, and has run the
\* scorer over the predictions of exactly that bet: one add_reedz call for
\* each of its predictions, to the user of that prediction, every call
\* applied to the balance, and no other balance changed.
C14_ResolveScoresTheBet ==
    [][(last'.op = "resolve" /\ last'.result = "ok") =>
          /\ ResolveStored(last'.bet_id)
          /\ ResolveCredited(last'.bet_id)]_vars

\* It holds of the bets of type 'number' or 'text'.  A bet of any other type
\* is resolved as well, and the scorer returns without a call: none of its
\* predictors is credited.
C14_SupportedTypesScored ==
    [][(last'.op = "resolve" /\ last'.result = "ok") =>
          /\ ResolveStored(last'.bet_id)
          /\ IF bets[last'.bet_id].answer_type \in SupportedTypes
             THEN ResolveCredited(last'.bet_id)
             ELSE last'.calls = <<>> /\ balance' = balance]_vars

\* The failing case: a successful resolve of a 'yes/no' bet that has a
\* prediction; nobody was credited
C14_OtherTypeCase ==
    /\ last.op = "resolve" /\ last.result = "ok"
    /\ TheBet.is_resolved /\ TheBet.answer_type = "yes/no"
    /\ N >= 1 /\ last.calls = <<>>
    /\ \A u \in Users : balance[u] = 0

\* The case of a supported type: two bets hold one prediction each, of
\* different users; the resolve of one of them succeeded and credited its
\* predictor, and the predictor of the other bet has received nothing.
C14_SupportedTypeCase ==
    /\ last.op = "resolve" /\ last.result = "ok"
    /\ TheBet.is_resolved /\ N = 1 /\ Len(last.calls) = 1
    /\ balance[ThePreds[1].user_id] > 0
    /\ \E i \in 1..Len(predictions) :
          /\ predictions[i].bet_id # last.bet_id
          /\ predictions[i].user_id # ThePreds[1].user_id
          /\ balance[predictions[i].user_id] = 0

\* What create, close and resolve must leave alone when they are refused
NothingStored ==
    /\ bets' = bets /\ predictions' = predictions /\ balance' = balance
    /\ credited' = credited /\ runs' = runs /\ role' = role

\* C15: create, close and resolve called by a user whose role is not Admin
\* are refused as Unauthorized and change no bet, prediction or balance;
\* whenever one of them is not refused as Unauthorized, it is a call by a
\* user whose role is Admin.
C15_AdminOnly ==
    [][/\ \A u \in Users :
            role[u] # "Admin" =>
                /\ \A t \in AnswerTypes :
                      create_bet(u, t) =>
                          (last'.result = "Unauthorized" /\ NothingStored)
                /\ \A b \in BetIds :
                      close_bet(u, b) =>
                          (last'.result = "Unauthorized" /\ NothingStored)
                /\ \A b \in BetIds, a \in TypedAnswers :
                      resolve_bet(u, b, a) =>
                          (last'.result = "Unauthorized" /\ NothingStored)
       /\ (last'.op \in {"create", "close", "resolve"}
              /\ last'.result # "Unauthorized") =>
            \E u \in Users :
                /\ role[u] = "Admin"
                /\ \/ \E t \in AnswerTypes : create_bet(u, t)
                   \/ \E b \in BetIds : close_bet(u, b)
                   \/ \E b \in BetIds, a \in TypedAnswers : resolve_bet(u, b, a)]_vars

\* C15 witness: a resolve on a closed bet that holds a prediction was refused
\* as Unauthorized: the bet is not resolved and nobody has been credited.
C15_Witness ==
    /\ last.op = "resolve" /\ last.result = "Unauthorized"
    /\ TheBet.is_closed /\ ~TheBet.is_resolved /\ TheBet.correct_answer = None
    /\ N >= 1
    /\ \A u \in Users : balance[u] = 0
    /\ runs = 0

\* C16: close by an Admin on an existing bet succeeds; on an open bet it sets
\* is_open = false and is_closed = true and changes nothing else of the bet;
\* on a bet that is already closed it changes nothing; in both cases every
\* other bet, the predictions and the balances are as before.
C16_CloseFrame ==
    [][(last'.op = "close" /\ last'.result # "Unauthorized"
          /\ bets[last'.bet_id].exists) =>
          LET b == last'.bet_id
          IN  /\ last'.result = "ok"
              /\ \A c \in BetIds \ {b} : bets'[c] = bets[c]
              /\ predictions' = predictions /\ balance' = balance
              /\ credited' = credited /\ runs' = runs
              /\ IF bets[b].is_closed
                 THEN bets'[b] = bets[b]
                 ELSE bets'[b] = [bets[b] EXCEPT !.is_open = FALSE,
                                                 !.is_closed = TRUE]]_vars

\* C16 witness: close succeeded on a bet that was closed and resolved
\* before, and the bet still carries its resolution; its prediction is kept.
C16_Witness ==
    /\ last.op = "close" /\ last.result = "ok"
    /\ TheBet.is_closed /\ ~TheBet.is_open
    /\ TheBet.is_resolved /\ TheBet.correct_answer \in TypedAnswers
    /\ N >= 1

\* The first case of C16: close succeeded on an open bet that holds a
\* prediction.
C16_ClosedOpenBet ==
    /\ last.op = "close" /\ last.result = "ok"
    /\ TheBet.is_closed /\ ~TheBet.is_open /\ ~TheBet.is_resolved
    /\ TheBet.correct_answer = None /\ TheBet.resolved_at = 0
    /\ N >= 1

----------------------------------------------------------------------------
\* Requests running at the same time

\* Every request has made all its calls
AllDone ==
    /\ \A b \in BetIds : requests.scorer[b] = <<>>
    /\ requests.adjust.pc \in {"done", "not found"}

\* C17: however the add_reedz calls of two scoring runs and of an admin
\* balance change interleave, no increment is lost: at every moment, and so
\* after all of them have completed, each balance is the initial balance (0)
\* plus the sum of the deltas passed to add_reedz for that user.
C17_NoLostIncrement ==
    \A u \in Users : balance[u] = 0 + passed[u]

\* C17 witness: all requests have completed; one user was credited by the
\* scoring runs of both bets, and the admin's change of that user's balance
\* read it after a credit had been applied.
C17_Witness ==
    /\ AllDone
    /\ \E u \in Users :
          /\ credited[1][u] > 0 /\ credited[2][u] > 0
          /\ requests.adjust.uid = u /\ requests.adjust.pc = "done"
          /\ requests.adjust.seen > 0
          /\ requests.adjust.seen < credited[1][u] + credited[2][u]

----------------------------------------------------------------------------
\* Relations between scoring runs on related inputs

\* str.upper() of one character, as a text: the upper-case form of "ß" is
\* the two letters "SS", which str.lower() turns into "ss", not into "ß"
upper_char(c) ==
    CASE c = "a" -> <<"A">> [] c = "n" -> <<"N">> [] c = "s" -> <<"S">>
      [] c = "ß" -> <<"S", "S">> [] OTHER -> <<c>>

\* str.upper(): a text with its letters changed to upper case
RECURSIVE upper(_)
upper(s) == IF s = <<>> THEN <<>> ELSE upper_char(Head(s)) \o upper(Tail(s))

\* The same text with a blank added in front or behind, or trimmed
BlankRespellings(s) == {<<" ">> \o s, s \o <<" ">>, strip(s)}

\* The same text with its letters in upper or in lower case
CaseRespellings(s) == {upper(s), lower(s)}

\* The respellings of the claim: blanks added or trimmed, letter case changed
Respellings(s) == BlankRespellings(s) \cup CaseRespellings(s)

\* The respellings that str.lower() brings back to the lower-case form of
\* the text: every change of blanks, and a change of case unless it replaces
\* a letter by letters of another lower-case form ("ß" by "SS")
UndoneRespellings(s) ==
    BlankRespellings(s)
        \cup {r \in CaseRespellings(s) : lower(strip(r)) = lower(strip(s))}

\* The amount a scoring run of bet with the predictions preds passes to
\* add_reedz for each prediction
AmountsOf(bet, preds) ==
    LET calls == scoring_plan(bet, preds).calls
    IN  [i \in 1..Len(preds) |->
            LET k == CHOOSE k \in 1..Len(calls) : calls[k].pred = i
            IN  calls[k].delta]

\* The statement as the specification has it: on a 'text' bet, respelling
\* the correct answer or any one prediction (a leading or trailing blank
\* added, blanks trimmed, letters changed to upper or to lower case) changes
\* the amount credited for no prediction. It fails for the answer "ß" with a
\* prediction "ß": the prediction matches, its upper-case respelling "SS"
\* is compared as "ss" and does not.
C18_AnyCaseChange ==
    (Scored /\ TextBet /\ N >= 1) =>
        LET amounts == AmountsOf(TheBet, ThePreds)
        IN  /\ \A k \in 1..Len(last.calls) :
                  last.calls[k].delta = amounts[last.calls[k].pred]
            /\ \A a \in Respellings(TheBet.correct_answer) :
                  AmountsOf([TheBet EXCEPT !.correct_answer = a], ThePreds)
                      = amounts
            /\ \A i \in 1..N :
                  \A s \in Respellings(ThePreds[i].prediction) :
                      AmountsOf(TheBet, [ThePreds EXCEPT ![i].prediction = s])
                          = amounts

\* C18: on a 'text' bet, respelling the correct answer or any one prediction
\* by a leading or trailing blank added, by blanks trimmed, or by a change of
\* letters to upper or to lower case that str.lower() undoes, changes the
\* amount credited for no prediction, and the amounts of the run that was
\* made are the amounts so computed.
C18_NormalizationInvariant ==
    (Scored /\ TextBet /\ N >= 1) =>
        LET amounts == AmountsOf(TheBet, ThePreds)
        IN  /\ \A k \in 1..Len(last.calls) :
                  last.calls[k].delta = amounts[last.calls[k].pred]
            /\ \A a \in UndoneRespellings(TheBet.correct_answer) :
                  AmountsOf([TheBet EXCEPT !.correct_answer = a], ThePreds)
                      = amounts
            /\ \A i \in 1..N :
                  \A s \in UndoneRespellings(ThePreds[i].prediction) :
                      AmountsOf(TheBet, [ThePreds EXCEPT ![i].prediction = s])
                          = amounts

\* The case the specification's statement misses: the correct answer "ß",
\* a prediction "ß" credited as a match, and the prediction's upper-case
\* respelling "SS" credited nothing.
C18_CaseNotUndone ==
    /\ Scored /\ TextBet /\ last.result = "ok"
    /\ TheBet.correct_answer = <<"ß">>
    /\ \E i \in 1..N :
          /\ ThePreds[i].prediction = <<"ß">>
          /\ \E k \in CallsFor(i) : last.calls[k].delta = N + 5
          /\ upper(ThePreds[i].prediction) = <<"S", "S">>
          /\ AmountsOf(TheBet,
                       [ThePreds EXCEPT ![i].prediction = <<"S", "S">>])[i] = 0

\* C18 witness: the correct answer "A " and a prediction "a" differ in case
\* and blanks and the prediction was credited as a match, beside a
\* prediction that does not match.
C18_Witness ==
    /\ Scored /\ TextBet /\ N >= 2 /\ last.result = "ok"
    /\ TheBet.correct_answer = <<"A", " ">>
    /\ \E i, j \in 1..N :
          /\ ThePreds[i].prediction = <<"a">>
          /\ ThePreds[j].prediction = <<" ", "1">>
          /\ \E k \in CallsFor(i) : last.calls[k].delta = N + 5
          /\ \E k \in CallsFor(j) : last.calls[k].delta = 0

\* C19: a scoring run of a 'number' bet on which some prediction does not
\* parse as a number fails with ValueError before any add_reedz call: no
\* balance changes, also not that of a user whose prediction parses.
C19_UnparseablePredictionFails ==
    [][(runs' = runs + 1 /\ bets[last'.bet_id].answer_type = "number"
          /\ \E i \in 1..Len(RowsOf(last'.bet_id)) :
                ~float(RowsOf(last'.bet_id)[i].prediction).ok)
            => (last'.result = "ValueError" /\ last'.calls = <<>>
                /\ balance' = balance /\ credited' = credited
                /\ passed' = passed)]_vars

\* C19 witness: a 'number' bet whose correct answer parses, with one
\* prediction that parses and one that does not, was scored: ValueError, and
\* every balance is still 0.
C19_Witness ==
    /\ Scored /\ NumberBet /\ AnswerParses
    /\ \E i, j \in 1..N :
          /\ float(ThePreds[i].prediction).ok
          /\ ~float(ThePreds[j].prediction).ok
          /\ ThePreds[i].user_id # ThePreds[j].user_id
    /\ last.result = "ValueError" /\ last.calls = <<>>
    /\ \A u \in Users : balance[u] = 0

\* The rank points in the amount of the k-th add_reedz call of the last run:
\* the amount less the bonus of an exact prediction
BasePoints(k) ==
    last.calls[k].delta
        - (IF Exact(last.calls[k].pred) THEN 5 ELSE 0)

\* C20 (as claimed): on a 'number' bet with parseable predictions, at most
\* one per user, the rank points decrease strictly with the error: of two
\* predictions the one with the strictly smaller absolute error is credited
\* strictly more rank points.
C20_StrictlyDecreasing ==
    (Scored /\ NumberBet /\ AllParse /\ OnePredictionPerUser) =>
        \A k1, k2 \in 1..Len(last.calls) :
            SmallerError(last.calls[k1].pred, last.calls[k2].pred)
                => BasePoints(k1) > BasePoints(k2)

\* C20, the runs without nan: when the correct answer and every prediction
\* parse to a number other than nan, the prediction with the strictly
\* smaller error is credited strictly more rank points.
C20_StrictlyDecreasingFinite ==
    (Scored /\ NumberBet /\ AllParse /\ AllFinite /\ OnePredictionPerUser) =>
        \A k1, k2 \in 1..Len(last.calls) :
            SmallerError(last.calls[k1].pred, last.calls[k2].pred)
                => BasePoints(k1) > BasePoints(k2)

\* C20 witness: three users with errors 0, 1 and 2 were credited rank points
\* 3, 2 and 1.
C20_Witness ==
    /\ Scored /\ NumberBet /\ AllParse /\ OnePredictionPerUser
    /\ N = 3 /\ last.result = "ok" /\ Len(last.calls) = 3
    /\ \E k0, k1, k2 \in 1..3 :
          /\ ErrorIs(last.calls[k0].pred, 0) /\ BasePoints(k0) = 3
          /\ ErrorIs(last.calls[k1].pred, 1) /\ BasePoints(k1) = 2
          /\ ErrorIs(last.calls[k2].pred, 2) /\ BasePoints(k2) = 1

\* C20, a run with nan: with a nan prediction stored between them, the
\* prediction with error 0 is credited 1 rank point and the prediction with
\* error 1 is credited 3.
C20_CloserCreditedLess ==
    /\ Scored /\ NumberBet /\ N = 3 /\ AllParse /\ OnePredictionPerUser
    /\ last.result = "ok" /\ Len(last.calls) = 3
    /\ ErrorIs(1, 1) /\ Value(2).nan /\ ErrorIs(3, 0)
    /\ BasePoints(1) = 3 /\ BasePoints(3) = 1

----------------------------------------------------------------------------
\* C21: every delta a scoring run passes to add_reedz is an integer a with
\* 0 <= a <= n + 5, n being the number of predictions on the bet, and a >= 1
\* on a 'number' bet; the run lowers no balance.
C21_DeltasInRange ==
    [][Scored' =>
          /\ \A k \in 1..Len(last'.calls) :
                LET a == last'.calls[k].delta
                    n == Len(get_predictions_for_bet(last'.bet_id))
                IN  /\ a \in Int
                    /\ 0 <= a /\ a <= n + 5
                    /\ bets[last'.bet_id].answer_type = "number" => a >= 1
          /\ \A u \in Users : balance'[u] >= balance[u]]_vars

\* C21 witness: a 'number' bet with three predictions was scored and the
\* least and the greatest amount, 1 and 3 + 5, were both passed to add_reedz.
C21_Witness ==
    /\ Scored /\ NumberBet /\ N = 3 /\ last.result = "ok"
    /\ \E k1, k2 \in 1..Len(last.calls) :
          /\ last.calls[k1].delta = 1
          /\ last.calls[k2].delta = N + 5

\* C21 witness on a 'text' bet: the deltas 0 and n + 5 occur in one run.
C21_TextWitness ==
    /\ Scored /\ TextBet /\ N = 2 /\ last.result = "ok"
    /\ \E k1, k2 \in 1..Len(last.calls) :
          /\ last.calls[k1].delta = 0
          /\ last.calls[k2].delta = N + 5

\* C25: scoring a bet whose answer_type is neither 'number' nor 'text' and
\* that has at least one prediction makes no add_reedz call and raises no
\* error: the run ends as a success and no balance has changed.
C25_OtherTypeCreditsNobody ==
    (Scored /\ ~NumberBet /\ ~TextBet /\ N >= 1) =>
        /\ last.result = "ok"
        /\ last.calls = <<>>
        /\ \A u \in Users : balance[u] = 0 /\ passed[u] = 0
        /\ \A u \in Users : credited[last.bet_id][u] = 0

\* C25 witness: a 'yes/no' bet with three predictions, one of them equal to
\* the correct answer up to blanks and case, was scored.
C25_Witness ==
    /\ Scored /\ TheBet.answer_type = "yes/no" /\ N = 3
    /\ \E i \in 1..N :
          Normalized(ThePreds[i].prediction) = Normalized(TheBet.correct_answer)
    /\ last.result = "ok" /\ last.calls = <<>>

\* C26: a run of distribute_reedz_on_resolution(bet_id) leaves every bet
\* record, every prediction record and every role unchanged, changes the
\* balance of no user without a prediction on bet_id, and the calls it makes
\* are those computed from that bet's record and that bet's predictions
\* alone.
C26_ScorerFrame ==
    [][Scored' =>
          LET b == last'.bet_id
              rows == RowsOf(b)
              plan == scoring_plan(bets[b], rows)
          IN  /\ bets' = bets
              /\ predictions' = predictions
              /\ role' = role
              /\ \A u \in Users :
                    (\A i \in 1..Len(rows) : rows[i].user_id # u)
                        => balance'[u] = balance[u]
              /\ \A c \in BetIds \ {b} : credited'[c] = credited[c]
              /\ Len(last'.calls) <= Len(plan.calls)
              /\ last'.calls = SubSeq(plan.calls, 1, Len(last'.calls))
              /\ last'.result = "ok" => last'.calls = plan.calls]_vars

\* C26 witness: after bet 1 was scored, bet 2 was scored successfully; its
\* one predictor was credited, while a user with a prediction on bet 1 only
\* kept the non-zero balance the first run had given.
C26_Witness ==
    /\ Scored /\ runs = 2 /\ last.bet_id = 2 /\ last.result = "ok"
    /\ Len(RowsOf(1)) >= 1 /\ Len(RowsOf(2)) = 1
    /\ \E u, v \in Users :
          /\ u # v
          /\ RowsOf(2)[1].user_id = u
          /\ \A i \in 1..Len(RowsOf(1)) : RowsOf(1)[i].user_id = v
          /\ credited[1][v] > 0 /\ balance[v] = credited[1][v]
          /\ credited[2][u] > 0 /\ balance[u] = credited[2][u]

\* The lists with the same predictions as the scored one, in any order
Orders(n) == {f \in [1..n -> 1..n] : \A i, j \in 1..n : f[i] = f[j] => i = j}
Reordered == {[i \in 1..N |-> ThePreds[f[i]]] : f \in Orders(N)}

\* What a successful run on the list preds passes to add_reedz for user u
TotalFor(preds, u) ==
    LET plan == scoring_plan(TheBet, preds)
    IN  delta_sum(plan.calls, Len(plan.calls), u)

\* Every order of the scored predictions credits every user what the
\* successful run of the stored order has credited
SameTotalsInAnyOrder ==
    \A preds \in Reordered :
        /\ scoring_plan(TheBet, preds).error = "none"
        /\ \A u \in Users : TotalFor(preds, u) = credited[last.bet_id][u]

\* C27 (as claimed): on a 'number' or 'text' bet, with or without several
\* predictions per user, the total a successful scoring run credits to each
\* user is the same for every order in which the predictions are fetched.
C27_OrderIndependent ==
    (Scored /\ (NumberBet \/ TextBet) /\ last.result = "ok") =>
        SameTotalsInAnyOrder

\* C27, the runs without nan: on a 'text' bet, and on a 'number' bet whose
\* correct answer and predictions parse to numbers other than nan, every
\* order of the predictions credits every user the same total.
C27_OrderIndependentFinite ==
    (Scored /\ (TextBet \/ (NumberBet /\ AllParse /\ AllFinite))
        /\ last.result = "ok") => SameTotalsInAnyOrder

\* C27, a run with nan: the predictions "nan" and " 1" on a 'number' bet
\* with correct answer "1" were credited 2 and 1 + 5; fetched in the other
\* order they are credited 1 and 2 + 5.
C27_NanOrderMatters ==
    /\ Scored /\ NumberBet /\ N = 2 /\ last.result = "ok"
    /\ OnePredictionPerUser
    /\ Value(1).nan /\ Exact(2)
    /\ credited[last.bet_id][ThePreds[1].user_id] = 2
    /\ credited[last.bet_id][ThePreds[2].user_id] = 6
    /\ TotalFor(<<ThePreds[2], ThePreds[1]>>, ThePreds[1].user_id) = 1
    /\ TotalFor(<<ThePreds[2], ThePreds[1]>>, ThePreds[2].user_id) = 7

----------------------------------------------------------------------------
\* Vocabulary of the front-end properties

\* The operations reserved to admins, and everything a step can be besides
AdminOperations ==
    {"create_bet", "close_bet", "resolve_bet", "change_role", "add_reedz",
     "delete_user", "reset_season"}

MemberOperations ==
    {"place_prediction", "view_bets", "leaderboard", "view_predictions",
     "My Profile", "Leaderboard", "All Bets", "View Predictions for a Bet",
     "get_bet_overview", "logout", "exit", "none"}

\* The session that takes the step, and the User object it holds before
Acting == last'.session
Holds(s) == session[s].user
LoggedIn(s) == Holds(s) # NoUser

\* C22: in both front ends, a step of a session whose logged-in user (the
\* User object the session holds) is not an Admin calls none of create_bet,
\* close_bet, resolve_bet, change_role, add_reedz, delete_user and
\* reset_season, whatever is chosen: it places a prediction, shows a
\* read-only view, logs out, exits or calls nothing.
C22_MembersCallNoAdminOperation ==
    [][(LoggedIn(Acting) /\ Holds(Acting).role # "Admin") =>
          /\ last'.op \notin AdminOperations
          /\ last'.op \in MemberOperations
          /\ <<role, balance, Tables>>' = <<role, balance, Tables>>]_vars

\* C22 witness: the CLI session of a member answered a choice that is no
\* item of the member menu with "Invalid choice.", and the web session of a
\* member has been logged in as well.
C22_Witness ==
    /\ last.op = "none" /\ last.session = 1 /\ last.message = "Invalid choice."
    /\ session[1].pc = "main" /\ session[1].user.role = "Member"
    /\ session[2].pc = "main" /\ session[2].user.role = "Member"

\* C22 read with the role stored in table users instead of the role of the
\* User object: a step of a session whose user has no Admin role in the
\* table calls no admin operation (see C29).
C22_ByStoredRole ==
    [][(LoggedIn(Acting) /\ role[Holds(Acting).user_id] # "Admin") =>
          last'.op \notin AdminOperations]_vars

----------------------------------------------------------------------------
\* C23: a step of the CLI that logs out leaves the session in the
\* authentication loop with no user, where Login and Exit work as at the
\* start, and every step that shows the main menu is a step of a session
\* holding a user.
C23_LogoutReturnsToAuthMenu ==
    [][/\ (front(Acting) = "cli" /\ last'.op = "logout") =>
              /\ session'[Acting].pc = "auth"
              /\ session'[Acting].user = NoUser
       /\ (front(Acting) = "cli" /\ last'.menu = "main_menu") =>
              LoggedIn(Acting)]_vars

\* The two failures apart.  After the logout of an admin the CLI is in a
\* loop that shows the authentication menu and acts on no choice: no login
\* and no exit follows.
C23_AdminLogoutIgnoresChoices ==
    [][(front(Acting) = "cli" /\ session[Acting].pc = "logged_out") =>
          /\ session'[Acting] = session[Acting]
          /\ last'.menu = "auth_menu" /\ last'.op = "none"]_vars

\* After the logout of a member the main menu is shown without a user and
\* the program ends with an exception.
C23_MemberLogoutCrashes ==
    [][(front(Acting) = "cli" /\ session[Acting].pc = "main"
                              /\ ~LoggedIn(Acting)) =>
          /\ last'.menu = "main_menu" /\ last'.result = "raised"
          /\ session'[Acting].pc = "crashed"]_vars

\* Both cases are reached
C23_AdminCase == session[1].pc = "logged_out" /\ last.menu = "auth_menu"

C23_MemberCase ==
    /\ session[1].pc = "crashed" /\ last.session = 1
    /\ last.menu = "main_menu" /\ last.op = "none"

\* In the browser the Logout button leads back to the login panel
C23_WebLogoutReturnsToAuthPanel ==
    [][(front(Acting) = "web" /\ last'.op = "logout") =>
          /\ session'[Acting].pc = "auth"
          /\ session'[Acting].user = NoUser]_vars

----------------------------------------------------------------------------
\* C30: in the CLI a lifecycle operation that raises is reported by an
\* error message, no success message is printed, and the main menu is shown
\* again to the same user.
LifecycleOperations ==
    {"create_bet", "place_prediction", "close_bet", "resolve_bet"}

Failed(op) == front(Acting) = "cli" /\ last'.op = op /\ last'.result = "raised"

Reported ==
    /\ last'.message = "Error:"
    /\ session'[Acting] = session[Acting]
    /\ session'[Acting].pc = "main" /\ LoggedIn(Acting)

C30_FailuresReported ==
    [][\A op \in LifecycleOperations : Failed(op) => Reported]_vars

\* It holds of place_prediction, the one call inside try/except
C30_PlacePredictionFailureReported ==
    [][Failed("place_prediction") => Reported]_vars

\* A failed create_bet, close_bet or resolve_bet ends the program
C30_OtherFailuresEndTheProgram ==
    [][\A op \in LifecycleOperations \ {"place_prediction"} :
          Failed(op) => /\ last'.message = "Traceback"
                        /\ session'[Acting].pc = "crashed"]_vars

C30_ReportedCase ==
    /\ last.session = 1 /\ last.op = "place_prediction"
    /\ last.result = "raised" /\ last.message = "Error:"
    /\ session[1].pc = "main"

C30_CrashCase ==
    /\ last.session = 1 /\ last.op = "resolve_bet" /\ last.result = "raised"
    /\ session[1].pc = "crashed"

----------------------------------------------------------------------------
\* C29: a session decides what its user may do from the User object stored
\* at login.  The object changes only when the session logs in, logs out or
\* ends, never when change_role rewrites the row; a session holding an
\* Admin object is offered every admin operation and a session holding a
\* Member object none, whatever role the row has by now; and an admin
\* operation is called only by a session holding an Admin object.
AdminItems == {"create_bet", "close_bet", "resolve_bet", "user_management"}

\* The admin operation is offered to the session in its main menu or sidebar
Offered(s, item, page) ==
    IF front(s) = "cli" THEN chooses(s, item) ELSE opens(s, page)

OfferedAll(s) ==
    /\ Offered(s, "create_bet", "Create Bet")
    /\ Offered(s, "close_bet", "Close Bet")
    /\ Offered(s, "resolve_bet", "Resolve Bet")
    /\ Offered(s, "user_management", "User Management")

OfferedNone(s) ==
    /\ ~Offered(s, "create_bet", "Create Bet")
    /\ ~Offered(s, "close_bet", "Close Bet")
    /\ ~Offered(s, "resolve_bet", "Resolve Bet")
    /\ ~Offered(s, "user_management", "User Management")

AtMain(s) == session[s].pc = "main" /\ LoggedIn(s)

\* The row of the user was rewritten after the login
Demoted(s) == LoggedIn(s) /\ Holds(s).role = "Admin"
                          /\ role[Holds(s).user_id] = "Member"
Promoted(s) == LoggedIn(s) /\ Holds(s).role = "Member"
                           /\ role[Holds(s).user_id] = "Admin"

C29_DecidedFromLoginObject ==
    /\ [](\A s \in Sessions :
            AtMain(s) => IF Holds(s).role = "Admin"
                         THEN OfferedAll(s) ELSE OfferedNone(s))
    /\ [][/\ \A s \in Sessions :
                session'[s].user # session[s].user =>
                   /\ Acting = s
                   /\ \/ last'.op \in {"authenticate", "logout", "exit"}
                      \/ session'[s].pc = "crashed"
          /\ last'.op \in AdminOperations => Holds(Acting).role = "Admin"
         ]_vars

\* Session 1 holds the Admin object of a user whose row says Member by now,
\* is offered every admin item and has just created a bet.
C29_Witness ==
    /\ Demoted(1)
    /\ last.session = 1 /\ last.op = "create_bet" /\ last.result = "ok"
    /\ AtMain(1) /\ OfferedAll(1)

\* Session 2 holds the Member object of a user whose row says Admin by now,
\* is offered no admin page and has just opened its profile.
C29_WebWitness ==
    /\ Promoted(2)
    /\ last.session = 2 /\ last.op = "My Profile" /\ last.result = "ok"
    /\ AtMain(2) /\ OfferedNone(2)

\* The same of the other front end each: the browser session of a demoted
\* admin has just reset the season, the CLI session of a promoted member is
\* offered no admin item.
C29_WebDemoted ==
    /\ Demoted(2)
    /\ last.session = 2 /\ last.op = "reset_season" /\ last.result = "ok"

C29_CliPromoted == Promoted(1) /\ AtMain(1) /\ OfferedNone(1)

----------------------------------------------------------------------------
\* C28: the admin's balance change to N reads the user's balance and then
\* calls add_reedz(user, N - value read).  The read sees what the scoring
\* runs have credited so far; after the increment the balance is N plus
\* what the scoring runs credited to that user between the read and the
\* increment: N itself if nothing was credited in between.
ScorerCredits(u) == credited[1][u] + credited[2][u]

AdjustReads == requests.adjust.pc = "start" /\ requests'.adjust.pc = "read"
AdjustIncrements == requests.adjust.pc = "read" /\ requests'.adjust.pc = "done"

\* What the scoring runs credited to the user since the read
CreditedBetween == ScorerCredits(requests.adjust.uid) - requests.adjust.seen

C28_ReadThenIncrement ==
    [][/\ AdjustReads =>
             requests'.adjust.seen = ScorerCredits(requests.adjust.uid)
       /\ AdjustIncrements =>
             /\ balance'[requests.adjust.uid] =
                   requests.adjust.target + CreditedBetween
             /\ CreditedBetween = 0 =>
                   balance'[requests.adjust.uid] = requests.adjust.target
             /\ \A u \in Users \ {requests.adjust.uid} :
                   balance'[u] = balance[u]]_vars

\* The change to 3 was applied to a balance that a scoring run had raised
\* after the read, and the balance is now 3 plus that credit
C28_Witness ==
    /\ requests.adjust.pc = "done" /\ requests.adjust.target = 3
    /\ requests.adjust.seen > 0
    /\ requests.adjust.found > requests.adjust.seen
    /\ balance[requests.adjust.uid] =
          3 + (requests.adjust.found - requests.adjust.seen)

\* Nothing in between: the balance read was not 0 and is now the typed one
C28_WitnessUninterrupted ==
    /\ requests.adjust.pc = "done" /\ requests.adjust.target = 0
    /\ requests.adjust.seen > 0
    /\ requests.adjust.found = requests.adjust.seen
    /\ balance[requests.adjust.uid] = 0

\* The balance after the change is not always the typed one
C28_AlwaysTheTypedBalance ==
    [][AdjustIncrements =>
          balance'[requests.adjust.uid] = requests.adjust.target]_vars

----------------------------------------------------------------------------
\* C24: a resolve of a closed, unresolved bet whose scoring fails with
\* ValueError leaves the bet as it was: closed, not resolved, correct_answer
\* unset; so that a later resolve with a valid answer distributes the
\* rewards.
ScoringFailed ==
    /\ last'.op = "resolve" /\ last'.result = "ValueError"
    /\ ~bets[last'.bet_id].is_resolved

C24_FailedScoringLeavesBetUnchanged ==
    [][ScoringFailed =>
          /\ bets'[last'.bet_id] = bets[last'.bet_id]
          /\ ~bets'[last'.bet_id].is_resolved
          /\ bets'[last'.bet_id].correct_answer = None]_vars

\* What a failed scoring leaves behind: the bet is resolved and holds the
\* answer that was typed; nobody is credited.
C24_FailedScoringLeavesBetResolved ==
    [][ScoringFailed =>
          /\ bets'[last'.bet_id].is_resolved
          /\ bets'[last'.bet_id].correct_answer \in TypedAnswers
          /\ bets'[last'.bet_id].resolved_at = runs'
          /\ last'.calls = <<>> /\ balance' = balance]_vars

\* A 'number' bet holding a prediction that does not parse is never scored,
\* whatever answer is typed at a later resolve
HoldsUnparseable(b) ==
    \E i \in 1..Len(RowsOf(b)) : ~float(RowsOf(b)[i].prediction).ok

C24_UnparseablePredictionFailsEveryResolve ==
    [][(/\ last'.op = "resolve"
        /\ last'.result \notin {"Unauthorized", "NotFound", "InvalidState"}
        /\ bets[last'.bet_id].answer_type = "number"
        /\ HoldsUnparseable(last'.bet_id)) =>
          /\ last'.result = "ValueError"
          /\ balance' = balance]_vars

\* The state after the failure: a resolved 'number' bet whose answer does
\* not parse, with a prediction that was credited nothing
C24_ResolvedWithoutScoring ==
    /\ last.op = "resolve" /\ last.result = "ValueError" /\ last.bet_id = 1
    /\ bets[1].is_resolved /\ ~float(bets[1].correct_answer).ok
    /\ Len(RowsOf(1)) > 0 /\ ~HoldsUnparseable(1)
    /\ \A u \in Users : balance[u] = 0

\* A second resolve of a 'number' bet whose first resolve credited nobody was
\* accepted and credited the predictors: the check of is_closed alone lets
\* it through
C24_SecondResolveScored ==
    /\ last.op = "resolve" /\ last.result = "ok" /\ last.bet_id = 1
    /\ runs = 2 /\ bets[1].resolved_at = 2 /\ bets[2] = NoBet
    /\ bets[1].answer_type = "number" /\ last.calls # <<>>
    /\ \A u \in Users :
          balance[u] = delta_sum(last.calls, Len(last.calls), u)

====
